---- MODULE Spec2Model ----
(***************************************************************************)
(* PYRITE: construction of a PyriteModel and its Algorithm of Total        *)
(* Inversion (ATI).                                                        *)
(*                                                                         *)
(* Two variants of the program are modelled side by side:                  *)
(*   variant = "linear"  src/old_code.py  (zones A..G, gammas x rel_errs,  *)
(*                       residuals as state elements, 100 iterations)      *)
(*   variant = "log"     src/pyrite.py    (grid points, zones LEZ/UMZ,     *)
(*                       log-domain state, model error Cf, 25 iterations)  *)
(*                                                                         *)
(* Numbers.  numpy's floats are modelled by exact rationals <<n, d>>       *)
(* (d > 0, lowest terms) extended with the IEEE specials nan = <<0, 0>>,   *)
(* inf = <<1, 0>>, -inf = <<-1, 0>>; rounding is not modelled.  A square   *)
(* root is kept as the surd <<"sqrt", q>>.  exp and log have no such       *)
(* representation: in the log variant the float results of one iteration   *)
(* (the maximum relative change, whether an inversion is singular) are     *)
(* read from an input plan, and the iterates are named by the iteration    *)
(* that produced them.                                                     *)
(*                                                                         *)
(* Equations.  ATI takes the equations through evaluate_model_equations.   *)
(* The production and migration terms of equation_builder (exp, cos) have  *)
(* no exact value, so the evaluator is run on polynomial equation sets     *)
(* over the same state elements (EquationSet below), chosen as an input.   *)
(***************************************************************************)
EXTENDS Integers, Sequences, FiniteSets, TLC

(***************************************************************************)
(* Bounds of the model.                                                    *)
(***************************************************************************)
\* zones A.. (old_code.py has 7) and grid points 0.. (pyrite.py has 95)
NZones == 2
\* longest list of gamma values passed to the constructor
MaxGammas == 2
\* longest list of relative errors passed to the constructor
MaxRelErrs == 2

(***************************************************************************)
(* Sequences built eagerly (a tuple, not a lazily evaluated function).     *)
(***************************************************************************)
Tup(f) == f \o <<>>

(***************************************************************************)
(* Extended rational arithmetic (numpy float semantics without rounding).  *)
(***************************************************************************)
Abs(n) == IF n < 0 THEN -n ELSE n
Sgn(n) == IF n < 0 THEN -1 ELSE IF n > 0 THEN 1 ELSE 0

RECURSIVE GCD(_, _)
GCD(a, b) == IF b = 0 THEN a ELSE GCD(b, a % b)

Norm(n, d) ==
    IF d = 0 THEN <<Sgn(n), 0>>
    ELSE IF n = 0 THEN <<0, 1>>
    ELSE LET g == GCD(Abs(n), Abs(d))
             s == IF d < 0 THEN -1 ELSE 1
         IN  <<s * (n \div g), s * (d \div g)>>

Zero == <<0, 1>>
One == <<1, 1>>
NaN == <<0, 0>>
PosInf == <<1, 0>>
NegInf == <<-1, 0>>
Int2R(n) == <<n, 1>>

IsFinite(a) == a[2] # 0

RNeg(a) == <<-a[1], a[2]>>

RAbs(a) == <<Abs(a[1]), a[2]>>

RAdd(a, b) ==
    IF IsFinite(a) /\ IsFinite(b)
    THEN IF a = Zero THEN b
         ELSE IF b = Zero THEN a
         ELSE LET g == GCD(a[2], b[2])
              IN  Norm(a[1] * (b[2] \div g) + b[1] * (a[2] \div g),
                       (a[2] \div g) * b[2])
    ELSE IF a = NaN \/ b = NaN THEN NaN
    ELSE IF ~IsFinite(a) /\ ~IsFinite(b) THEN (IF a = b THEN a ELSE NaN)
    ELSE IF IsFinite(a) THEN b ELSE a

RSub(a, b) == RAdd(a, RNeg(b))

RMul(a, b) ==
    IF IsFinite(a) /\ IsFinite(b)
    THEN IF a = Zero \/ b = Zero THEN Zero
         ELSE LET g1 == GCD(Abs(a[1]), b[2])
                  g2 == GCD(Abs(b[1]), a[2])
              IN  Norm((a[1] \div g1) * (b[1] \div g2),
                       (a[2] \div g2) * (b[2] \div g1))
    ELSE IF a = NaN \/ b = NaN \/ a = Zero \/ b = Zero THEN NaN
    ELSE <<Sgn(a[1]) * Sgn(b[1]), 0>>

\* IEEE division: x/0 is +-inf, 0/0 is nan (numpy warns and goes on)
RDiv(a, b) ==
    IF a = NaN \/ b = NaN THEN NaN
    ELSE IF ~IsFinite(b) THEN (IF IsFinite(a) THEN Zero ELSE NaN)
    ELSE IF ~IsFinite(a) THEN <<a[1] * (IF b[1] < 0 THEN -1 ELSE 1), 0>>
    ELSE IF b = Zero THEN <<Sgn(a[1]), 0>>
    ELSE RMul(a, IF b[1] < 0 THEN <<-b[2], -b[1]>> ELSE <<b[2], b[1]>>)

\* a < b on floats: false as soon as one side is nan
RLess(a, b) ==
    /\ a # NaN
    /\ b # NaN
    /\ IF IsFinite(a) /\ IsFinite(b) THEN RSub(a, b)[1] < 0
       ELSE IF a = b THEN FALSE
       ELSE a = NegInf \/ b = PosInf

\* np.sqrt: the surd of a non-negative number, nan otherwise
RSqrt(a) == IF a = NaN \/ a[1] < 0 THEN <<"sqrt", NaN>> ELSE <<"sqrt", a>>

(***************************************************************************)
(* Vectors and matrices (numpy arrays): a matrix is a sequence of rows.    *)
(***************************************************************************)
RECURSIVE SumTo(_, _)
SumTo(v, k) == IF k = 0 THEN Zero ELSE RAdd(SumTo(v, k - 1), v[k])

VSum(v) == CHOOSE r \in {SumTo(b, Len(b)) : b \in {v}} : TRUE

\* np.max: nan if any entry is nan
RECURSIVE MaxTo(_, _)
MaxTo(v, k) ==
    IF k = 1 THEN v[1]
    ELSE LET m == MaxTo(v, k - 1)
         IN  IF m = NaN \/ v[k] = NaN THEN NaN
             ELSE IF RLess(m, v[k]) THEN v[k] ELSE m

VMax(v) == CHOOSE r \in {MaxTo(b, Len(b)) : b \in {v}} : TRUE

VAdd(u, v) == Tup([i \in 1..Len(u) |-> RAdd(u[i], v[i])])

VSub(u, v) == Tup([i \in 1..Len(u) |-> RSub(u[i], v[i])])

Dot(u, v) == VSum(Tup([i \in 1..Len(u) |-> RMul(u[i], v[i])]))

NCols(A) == IF Len(A) = 0 THEN 0 ELSE Len(A[1])

Column(A, j) == Tup([i \in 1..Len(A) |-> A[i][j]])

Transpose(A) == Tup([j \in 1..NCols(A) |-> Column(A, j)])

\* A @ v
MatVec(A, v) == Tup([i \in 1..Len(A) |-> Dot(A[i], v)])

\* A @ B
MatMul(A, B) ==
    LET BT == Transpose(B)
    IN  Tup([i \in 1..Len(A) |-> Tup([j \in 1..Len(BT) |-> Dot(A[i], BT[j])])])

MatSub(A, B) == Tup([i \in 1..Len(A) |-> VSub(A[i], B[i])])

\* np.diag of a list: the square matrix with the list on its diagonal
DiagMatrix(v) ==
    Tup([i \in 1..Len(v) |-> Tup([j \in 1..Len(v) |-> IF i = j THEN v[i] ELSE Zero])])

HasNaN(A) == \E i \in 1..Len(A) : \E j \in 1..Len(A[i]) : ~IsFinite(A[i][j])

(***************************************************************************)
(* np.linalg.inv by Gauss-Jordan elimination on [A | I].  A zero pivot     *)
(* column is numpy's LinAlgError("Singular matrix"), returned as           *)
(* LinAlgError.  A matrix holding a nan has no zero pivot: LAPACK returns  *)
(* a matrix of nan and raises nothing.                                     *)
(***************************************************************************)
LinAlgError == <<>>

Augment(A) ==
    Tup([i \in 1..Len(A) |->
        Tup([j \in 1..(2 * Len(A)) |->
            IF j <= Len(A) THEN A[i][j]
            ELSE IF j - Len(A) = i THEN One ELSE Zero])])

PivotRows(A, k) == {i \in k..Len(A) : A[i][k] # Zero}

SwapRows(A, i, k) ==
    Tup([r \in 1..Len(A) |-> IF r = i THEN A[k] ELSE IF r = k THEN A[i] ELSE A[r]])

Eliminate(A, k) ==
    LET rowk == Tup([j \in 1..Len(A[k]) |-> RDiv(A[k][j], A[k][k])])
    IN  Tup([i \in 1..Len(A) |->
            IF i = k THEN rowk
            ELSE IF A[i][k] = Zero THEN A[i]
            ELSE Tup([j \in 1..Len(A[i]) |->
                     RSub(A[i][j], RMul(A[i][k], rowk[j]))])])

RECURSIVE GaussJordan(_, _)
GaussJordan(A, k) ==
    IF k > Len(A) THEN A
    ELSE IF PivotRows(A, k) = {} THEN LinAlgError
    ELSE LET p == CHOOSE r \in PivotRows(A, k) : \A q \in PivotRows(A, k) : r <= q
         IN  CHOOSE r \in {GaussJordan(B, k + 1) :
                           B \in {Eliminate(SwapRows(A, p, k), k)}} : TRUE

\* faulty variant: a singular matrix yields a matrix of nan, nothing is raised
InvQuiet(A) ==
    LET nans == Tup([i \in 1..Len(A) |-> Tup([j \in 1..Len(A) |-> NaN])])
    IN  IF HasNaN(A) THEN nans
        ELSE LET R == GaussJordan(Augment(A), 1)
             IN  IF R = LinAlgError THEN nans
                 ELSE Tup([i \in 1..Len(A) |-> SubSeq(R[i], Len(A) + 1, 2 * Len(A))])

Inv(A) ==
    IF HasNaN(A)
    THEN Tup([i \in 1..Len(A) |-> Tup([j \in 1..Len(A) |-> NaN])])
    ELSE LET R == GaussJordan(Augment(A), 1)
         IN  IF R = LinAlgError THEN LinAlgError
             ELSE Tup([i \in 1..Len(A) |-> SubSeq(R[i], Len(A) + 1, 2 * Len(A))])

(***************************************************************************)
(* Strings and lists (Python str.split, list.index, in).                   *)
(***************************************************************************)
RECURSIVE SplitFrom(_, _, _)
SplitFrom(rest, cur, acc) ==
    IF rest = "" THEN Append(acc, cur)
    ELSE IF Head(rest) = "_" THEN SplitFrom(Tail(rest), "", Append(acc, cur))
    ELSE SplitFrom(Tail(rest), cur \o Head(rest), acc)

\* s.split('_')
Split(s) == SplitFrom(s, "", <<>>)

\* e in list
InList(e, list) == \E i \in 1..Len(list) : list[i] = e

\* list.index(e): the first position of e (0 stands for ValueError)
Index(list, e) ==
    IF InList(e, list)
    THEN CHOOSE i \in 1..Len(list) :
            list[i] = e /\ \A j \in 1..(i - 1) : list[j] # e
    ELSE 0

\* the positions of a list, in order, that satisfy a test: list comprehension
\* the entries of the set of positions ks, in increasing order
InOrder(ks) ==
    Tup([j \in 1..Cardinality(ks) |->
        CHOOSE i \in ks : Cardinality({m \in ks : m < i}) = j - 1])

SelectIdx(list, keep, k) ==
    Tup([j \in 1..Cardinality(keep \cap 1..k) |-> list[InOrder(keep \cap 1..k)[j]]])

RECURSIVE FlattenTo(_, _)
FlattenTo(ss, k) == IF k = 0 THEN <<>> ELSE FlattenTo(ss, k - 1) \o ss[k]

Flatten(ss) == CHOOSE r \in {FlattenTo(b, Len(b)) : b \in {ss}} : TRUE

\* sub in s
Contains(s, sub) ==
    \E i \in 1..(Len(s) - Len(sub) + 1) : SubSeq(s, i, i + Len(sub) - 1) = sub

\* Python's None
None == <<"None">>

(***************************************************************************)
(* Symbolic expressions (sympy), restricted to polynomials: an expression  *)
(* is a sequence of terms, a term a coefficient and the list of its        *)
(* symbols (a symbol repeated k times is its k-th power).                  *)
(***************************************************************************)
Term(c, syms) == [c |-> c, s |-> syms]

\* the distinct entries of a list, each at its first position
Dedupe(list) ==
    SelectIdx(list, {i \in 1..Len(list) : \A j \in 1..(i - 1) : list[j] # list[i]},
              Len(list))

\* The iteration order of a Python set depends on the hashes of its members,
\* which are fixed when the process starts (PYTHONHASHSEED): the order in
\* which this process iterates a set.
VARIABLE order

Orders == {"asc", "desc"}

Reverse(list) == Tup([i \in 1..Len(list) |-> list[Len(list) + 1 - i]])

\* list(y.free_symbols): the symbols of y in the order of the process
FreeSymbols(y) ==
    LET symbols == Dedupe(Flatten(Tup([k \in 1..Len(y) |-> y[k].s])))
    IN  IF order = "desc" THEN Reverse(symbols) ELSE symbols

Count(x, syms) == Cardinality({k \in 1..Len(syms) : syms[k] = x})

RemoveOne(syms, x) ==
    LET k == Index(syms, x)
    IN  SubSeq(syms, 1, k - 1) \o SubSeq(syms, k + 1, Len(syms))

\* y.diff(x)
Diff(y, x) ==
    Flatten(Tup([k \in 1..Len(y) |->
        IF Count(x, y[k].s) = 0 THEN <<>>
        ELSE <<Term(RMul(Int2R(Count(x, y[k].s)), y[k].c), RemoveOne(y[k].s, x))>>]))

RECURSIVE ProdTo(_, _)
ProdTo(v, k) == IF k = 0 THEN One ELSE RMul(ProdTo(v, k - 1), v[k])

VProd(v) == CHOOSE r \in {ProdTo(b, Len(b)) : b \in {v}} : TRUE

\* sym.lambdify(x_sym, y) applied to x_num: symbol x_sym[j] takes the value x_num[j]
Lambdify(x_sym, y, x_num) ==
    VSum(Tup([k \in 1..Len(y) |->
        RMul(y[k].c,
             VProd(Tup([q \in 1..Len(y[k].s) |-> x_num[Index(x_sym, y[k].s[q])]])))]))

(***************************************************************************)
(* Entity model of the linear variant (src/old_code.py).                   *)
(***************************************************************************)
\* mixed layer depth
mld == 30

ZoneLabels == <<"A", "B", "C", "D", "E", "F", "G">>

\* define_zones: the zone labels, cut to the model's NZones
zone_names == SubSeq(ZoneLabels, 1, NZones)

\* self.grid, cut likewise (one grid depth per zone)
grid == SubSeq(<<30, 50, 100, 150, 200, 330, 500>>, 1, NZones)

\* define_tracers
tracer_names == <<"POCS", "POCL">>

\* nte = len(tracers)*len(grid)
nte == Len(tracer_names) * Len(grid)

(***************************************************************************)
(* Input data (pyrite_data.xlsx after load_data): the cruise-averaged      *)
(* concentration and standard error of each tracer at each grid depth,     *)
(* and the production priors of process_npp_data.  A depth without         *)
(* samples has the mean nan.                                               *)
(*   "offset"    priors that do not satisfy the equations                  *)
(*   "balanced"  priors that satisfy the "balance" equations exactly       *)
(*   "gap"       no sample of POCS at the first depth                      *)
(*   "exact"     a standard error of 0 at the first depth of POCS          *)
(***************************************************************************)
\* Tracer.__init__: prior['conc'], prior['conc_e'] by depth
TracerPrior(data, name) ==
    [conc |-> Tup([d \in 1..Len(grid) |->
                  IF data = "gap" /\ name = "POCS" /\ d = 1 THEN NaN
                  ELSE IF data = "balanced" THEN <<1, 2>>
                  ELSE <<3, 2>>]),
     conc_e |-> Tup([d \in 1..Len(grid) |->
                  IF data = "exact" /\ name = "POCS" /\ d = 1 THEN Zero
                  ELSE <<1, 2>>])]

\* process_npp_data: P30_prior, P30_prior_e
P30Prior == [prior |-> <<1, 30>>, prior_e |-> <<1, 30>>]

\* Param.__init__
Param(prior, prior_error, name, depth_vary) ==
    [prior |-> prior, prior_e |-> prior_error, name |-> name, dv |-> depth_vary]

\* define_params: run.params.  The model keeps one parameter of each kind
\* of the eleven: ws (depth-varying, error scaled by rel_err) and P30
\* (depth-invariant, prior from the data).
define_params(rel_err) ==
    << Param(Int2R(2), RMul(Int2R(2), rel_err), "ws", TRUE),
       Param(P30Prior.prior, P30Prior.prior_e, "P30", FALSE) >>

\* the Param object of a name: run.P30
ParamNamed(params, name) ==
    params[CHOOSE k \in 1..Len(params) : params[k].name = name]

(***************************************************************************)
(* State Vector Builder (linear variant).                                  *)
(***************************************************************************)
TracerKeys ==
    Flatten(Tup([s \in 1..Len(tracer_names) |->
        Tup([z \in 1..Len(zone_names) |-> tracer_names[s] \o "_" \o zone_names[z]])]))

ResidualKeys ==
    Flatten(Tup([s \in 1..Len(tracer_names) |->
        Tup([z \in 1..Len(zone_names) |->
            "R" \o tracer_names[s] \o "_" \o zone_names[z]])]))

\* faulty variant: the zone label is left out of the key
ParamKeysNoZone(p) ==
    IF p.dv
    THEN Tup([z \in 1..Len(zone_names) |-> p.name])
    ELSE <<p.name>>

\* the state elements one parameter contributes
ParamKeys(p) ==
    IF p.dv
    THEN Tup([z \in 1..Len(zone_names) |-> p.name \o "_" \o zone_names[z]])
    ELSE <<p.name>>

\* define_state_and_equation_elements
StateElements(params) ==
    TracerKeys \o ResidualKeys
        \o Flatten(Tup([k \in 1..Len(params) |-> ParamKeys(params[k])]))

EquationElements == TracerKeys

\* define_params: the names of the eleven parameters, depth-varying first
dv_param_names == <<"ws", "wl", "B2p", "Bm2", "Bm1s", "Bm1l">>

dc_param_names == <<"P30", "Lp", "B3", "a", "zm">>

\* define_state_and_equation_elements with the seven zones of define_zones
\* and the eleven parameters of define_params
AllEquationElements ==
    Flatten(Tup([s \in 1..Len(tracer_names) |->
        Tup([z \in 1..Len(ZoneLabels) |-> tracer_names[s] \o "_" \o ZoneLabels[z]])]))

AllStateElements ==
    AllEquationElements
        \o Flatten(Tup([s \in 1..Len(tracer_names) |->
               Tup([z \in 1..Len(ZoneLabels) |->
                   "R" \o tracer_names[s] \o "_" \o ZoneLabels[z]])]))
        \o Flatten(Tup([k \in 1..Len(dv_param_names) |->
               Tup([z \in 1..Len(ZoneLabels) |-> dv_param_names[k] \o "_" \o ZoneLabels[z]])]))
        \o dc_param_names

Repeat(x, n) == Tup([i \in 1..n |-> x])

Square(a) == RMul(a, a)

\* faulty variant: a depth-varying parameter's prior appended once
ParamPriorsOnce(p) == [xo |-> <<p.prior>>, Co |-> <<Square(p.prior_e)>>]

\* the prior values and variances one parameter contributes
ParamPriors(p) ==
    IF p.dv
    THEN [xo |-> Repeat(p.prior, Len(grid)), Co |-> Repeat(Square(p.prior_e), Len(grid))]
    ELSE [xo |-> <<p.prior>>, Co |-> <<Square(p.prior_e)>>]

\* the variance of a residual: (gamma*P30.prior*mld)**2
ResidualVariance(gamma, params) ==
    Square(RMul(RMul(gamma, ParamNamed(params, "P30").prior), Int2R(mld)))

\* define_prior_vector_and_cov_matrix: the lists xo and Co before np.diag
PriorLists(data, gamma, params) ==
    LET tr == Tup([s \in 1..Len(tracer_names) |-> TracerPrior(data, tracer_names[s])])
        pp == Tup([k \in 1..Len(params) |-> ParamPriors(params[k])])
    IN  [xo |-> Flatten(Tup([s \in 1..Len(tr) |-> tr[s].conc]))
                 \o Flatten(Tup([s \in 1..Len(tracer_names) |-> Repeat(Zero, Len(grid))]))
                 \o Flatten(Tup([k \in 1..Len(pp) |-> pp[k].xo])),
         Co |-> Flatten(Tup([s \in 1..Len(tr) |->
                            Tup([d \in 1..Len(tr[s].conc_e) |-> Square(tr[s].conc_e[d])])]))
                 \o Flatten(Tup([s \in 1..Len(tracer_names) |->
                            IF Contains(tracer_names[s], "POC")
                            THEN Repeat(ResidualVariance(gamma, params), Len(grid))
                            ELSE <<>>]))
                 \o Flatten(Tup([k \in 1..Len(pp) |-> pp[k].Co]))]

(***************************************************************************)
(* The equations of the program itself (equation set "model").  They are   *)
(* built over all seven zones of define_zones, whatever NZones is, with    *)
(* all eleven parameters of define_params.  The products and sums are      *)
(* sympy's; exp(-c/Lp) and cos(pi*c/(zm - zg)) have no polynomial form     *)
(* and are replaced by 1 - c*Lp and 1 - c*zm, which keep the symbol the    *)
(* term depends on and, as the originals, are the constant 1 at c = 0.     *)
(***************************************************************************)
\* a symbol, a number, and the arithmetic of sympy expressions
S(x) == <<Term(One, <<x>>)>>

K(c) == IF c = Zero THEN <<>> ELSE <<Term(c, <<>>)>>

PAdd(p, q) == p \o q

PScale(c, p) ==
    IF c = Zero THEN <<>>
    ELSE Tup([k \in 1..Len(p) |-> Term(RMul(c, p[k].c), p[k].s)])

PSub(p, q) == p \o PScale(Int2R(-1), q)

PMul(p, q) ==
    Flatten(Tup([i \in 1..Len(p) |->
        Tup([j \in 1..Len(q) |-> Term(RMul(p[i].c, q[j].c), p[i].s \o q[j].s)])]))

\* the sum of a list of expressions
PSum(ps) == Flatten(ps)

\* grazing zone depth
zg == 100

\* GridZone.__init__: depths and thick of the zone of a label
GridZoneDepths(label) ==
    LET index == Index(ZoneLabels, label)
    IN  SubSeq(<<0, 30, 50, 100, 150, 200, 330, 500>>, index, index + 1)

GridZoneThick(label) == GridZoneDepths(label)[2] - GridZoneDepths(label)[1]

\* faulty variant: the zone two above
PreviousZoneSkips(z) ==
    LET i == Index(ZoneLabels, z)
    IN  IF i <= 2 THEN ZoneLabels[Len(ZoneLabels)] ELSE ZoneLabels[i - 2]

\* previous_zone: zone_names[index - 1]; Python's index -1 is the last zone
previous_zone(z) ==
    LET i == Index(ZoneLabels, z)
    IN  IF i = 1 THEN ZoneLabels[Len(ZoneLabels)] ELSE ZoneLabels[i - 1]

\* params_known of a twin experiment: the estimate of a parameter (in a
\* zone) and of a residual, as numbers
KnownEstimate(name, z) ==
    Norm(Index(dv_param_names \o dc_param_names \o tracer_names, name)
             + (IF z = "" THEN 0 ELSE Index(ZoneLabels, z)), 4)

\* equation_builder: "if z in ('B', 'C')", the zones below A whose small POC
\* is consumed by the migrating zooplankton
ConsumptionZone(z) == z \in {"B", "C"}

\* faulty variant: the zone that ends at zg taken for a zone below zg
ExcretionZoneFromC(z) == z \in {"C", "D", "E", "F", "G"}

\* equation_builder: "if z in ('D', 'E', 'F', 'G')", the zones below zg, in
\* which the zooplankton excretes large POC
ExcretionZone(z) == z \in {"D", "E", "F", "G"}

\* equation_builder (old_code.py) for a species in the zone labelled z;
\* params_known: the parameters and residuals are numbers, not symbols
model_equation(species, z, params_known) ==
    LET zim1 == GridZoneDepths(z)[1]
        zi == GridZoneDepths(z)[2]
        h == Int2R(GridZoneThick(z))
        pz == previous_zone(z)
        half == <<1, 2>>
        \* a depth-varying parameter in a zone, a depth-independent one, a residual
        DV(name, zone) == IF params_known THEN K(KnownEstimate(name, zone))
                          ELSE S(name \o "_" \o zone)
        DC(name) == IF params_known THEN K(KnownEstimate(name, "")) ELSE S(name)
        R(name) == IF params_known THEN K(KnownEstimate(name, z))
                   ELSE S("R" \o name \o "_" \o z)
        Psi == S("POCS_" \o z)
        Pli == S("POCL_" \o z)
        Psim1 == S("POCS_" \o pz)
        Plim1 == S("POCL_" \o pz)
        Psa == PScale(half, PAdd(Psi, Psim1))
        Pla == PScale(half, PAdd(Pli, Plim1))
        Bm2 == DV("Bm2", z)
        B2p == DV("B2p", z)
        Bm1s == DV("Bm1s", z)
        Bm1l == DV("Bm1l", z)
        ws == DV("ws", z)
        wl == DV("wl", z)
        wsm1 == DV("ws", pz)
        wlm1 == DV("wl", pz)
        P30 == DC("P30")
        Lp == DC("Lp")
        B3 == DC("B3")
        a == DC("a")
        D == DC("zm")
        exp(c) == PSub(K(One), PScale(Int2R(c), Lp))
        cos(c) == PSub(K(One), PScale(Int2R(c), D))
        B3Ps_av ==
            PMul(PScale(<<1, zg>>, B3),
                 PSum(<< PScale(Int2R(GridZoneThick("A")), S("POCS_A")),
                         PScale(RMul(half, Int2R(GridZoneThick("B"))),
                                PAdd(S("POCS_A"), S("POCS_B"))),
                         PScale(RMul(half, Int2R(GridZoneThick("C"))),
                                PAdd(S("POCS_B"), S("POCS_C"))) >>))
    IN  IF species = "POCS"
        THEN IF z = "A"
             THEN PSum(<< PScale(Int2R(-1), PMul(ws, Psi)),
                          PScale(h, PMul(Bm2, Pli)),
                          PScale(RNeg(h), PMul(PAdd(PMul(B2p, Psi), Bm1s), Psi)),
                          R("POCS"),
                          PScale(RNeg(h), PMul(B3, Psi)),
                          IF params_known THEN <<>>
                          ELSE PScale(Int2R(mld), P30) >>)
             ELSE PSum(<< PScale(Int2R(-1), PMul(ws, Psi)),
                          PMul(wsm1, Psim1),
                          PScale(h, PMul(Bm2, Pla)),
                          PScale(RNeg(h), PMul(PAdd(PMul(B2p, Psa), Bm1s), Psa)),
                          R("POCS"),
                          IF ConsumptionZone(z)
                          THEN PScale(RNeg(h), PMul(B3, Psa)) ELSE <<>>,
                          IF params_known THEN <<>>
                          ELSE PMul(PMul(Lp, P30),
                                    PSub(exp(zim1 - mld), exp(zi - mld))) >>)
        ELSE IF z = "A"
             THEN PSum(<< PScale(Int2R(-1), PMul(wl, Pli)),
                          PScale(h, PMul(B2p, PMul(Psi, Psi))),
                          PScale(RNeg(h), PMul(PAdd(Bm2, Bm1l), Pli)),
                          R("POCL") >>)
             ELSE PSum(<< PScale(Int2R(-1), PMul(wl, Pli)),
                          PMul(wlm1, Plim1),
                          PScale(h, PMul(B2p, PMul(Psa, Psa))),
                          PScale(RNeg(h), PMul(PAdd(Bm2, Bm1l), Pla)),
                          R("POCL"),
                          IF ExcretionZone(z)
                          THEN PMul(PMul(B3Ps_av, PScale(Norm(zg, 2), a)),
                                    PSub(cos(zim1 - zg), cos(zi - zg)))
                          ELSE <<>> >>)

(***************************************************************************)
(* Model equations.  equation_builder returns the equation of a species    *)
(* in a zone; the polynomial equation sets it is run on here:              *)
(*   "balance"    loss of the tracer in the zone, a supply (production     *)
(*                mld*P30 for POCS in zone A, a constant elsewhere) and    *)
(*                the residual                                             *)
(*   "newton"     T**2 - T + 5/4 for the tracer T of the equation: no      *)
(*                root, and a Jacobian that vanishes at T = 1/2            *)
(*   "cycle"      T**3 - 9/2*T**2 + 19/4*T + 13/8 for the tracer T of the  *)
(*                equation: from the prior 3/2 the iterates alternate      *)
(*                between 5/2 and 3/2 and never converge                   *)
(*   "duplicate"  the same equation for every equation element             *)
(*   "model"      the equations of the program (model_equation)            *)
(*   "twin"       the same with params_known supplied (PyriteTwinX)        *)
(***************************************************************************)
equation_builder(eqsys, species, zone_name) ==
    LET t == species \o "_" \o zone_name
        r == "R" \o species \o "_" \o zone_name
    IN  IF eqsys \in {"model", "twin"}
        THEN model_equation(species, zone_name, eqsys = "twin")
        ELSE IF eqsys = "balance"
        THEN IF zone_name = "A" /\ species = "POCS"
             THEN << Term(Int2R(-2), <<t>>), Term(Int2R(mld), <<"P30">>),
                     Term(One, <<r>>) >>
             ELSE << Term(Int2R(-2), <<t>>), Term(One, <<>>), Term(One, <<r>>) >>
        ELSE IF eqsys = "newton"
        THEN << Term(One, <<t, t>>), Term(Int2R(-1), <<t>>), Term(<<5, 4>>, <<>>) >>
        ELSE IF eqsys = "cycle"
        THEN << Term(One, <<t, t, t>>), Term(<<-9, 2>>, <<t, t>>),
                Term(<<19, 4>>, <<t>>), Term(<<13, 8>>, <<>>) >>
        ELSE << Term(One, <<"POCS_A">>), Term(One, <<"RPOCS_A">>) >>

\* extract_equation_variables: the loop over x_symbolic
ExtractAt(x_symbolic, x_indices, v) ==
    [sym |-> x_symbolic,
     num |-> Tup([j \in 1..Len(x_symbolic) |-> v[x_indices[j]]]),
     ind |-> x_indices]

\* faulty variant: the indices are taken in another order than the symbols
ExtractMisaligned(se, y, v) ==
    ExtractAt(FreeSymbols(y),
              Tup([j \in 1..Len(FreeSymbols(y)) |->
                  Index(se, Reverse(FreeSymbols(y))[j])]), v)

\* extract_equation_variables
extract_equation_variables(se, y, v) ==
    ExtractAt(FreeSymbols(y),
              Tup([j \in 1..Len(FreeSymbols(y)) |-> Index(se, FreeSymbols(y)[j])]), v)

\* faulty variant: params_known is not passed on to equation_builder
EquationOfUnknown(ee, eqsys, i) ==
    equation_builder("model", Split(ee[i])[1], Split(ee[i])[2])

\* the equation of equation element number i
EquationOf(ee, eqsys, i) ==
    equation_builder(eqsys, Split(ee[i])[1], Split(ee[i])[2])

\* sym.lambdify(x_sym, y)(*x_num) on the variables extracted from y
LambdifyAt(y, ev) == Lambdify(ev.sym, y, ev.num)

\* evaluate_model_equations: the vector f
EvaluateF(se, ee, eqsys, v) ==
    Tup([i \in 1..Len(ee) |->
        LambdifyAt(EquationOf(ee, eqsys, i),
                   extract_equation_variables(se, EquationOf(ee, eqsys, i), v))])

\* F[i, x_ind[j]] = ... with an index outside the matrix
IndexError == <<"IndexError">>

\* what a call returns when an IndexError leaves it
Raised == [error |-> "IndexError"]

\* the row of F for the equation y: the derivative by each symbol of y, in
\* the column of the symbol's index
JacobianRow(se, y, ev, v, width) ==
    IF \E j \in 1..Len(ev.ind) : ev.ind[j] > width THEN IndexError
    ELSE Tup([c \in 1..width |->
             IF InList(c, ev.ind)
             THEN LambdifyAt(Diff(y, ev.sym[Index(ev.ind, c)]),
                             extract_equation_variables(
                                 se, Diff(y, ev.sym[Index(ev.ind, c)]), v))
             ELSE Zero])

\* the matrix of the rows, or the IndexError one of them raised
RowsOrError(rows) ==
    IF \E i \in 1..Len(rows) : rows[i] = IndexError THEN IndexError ELSE rows

\* evaluate_model_equations: the Jacobian F (return_F=True); nte columns
\* when params_known is supplied, one per state element otherwise
EvaluateJacobian(se, ee, eqsys, v) ==
    RowsOrError(
        Tup([i \in 1..Len(ee) |->
            JacobianRow(se, EquationOf(ee, eqsys, i),
                        extract_equation_variables(se, EquationOf(ee, eqsys, i), v),
                        v, IF eqsys = "twin" THEN Len(ee) ELSE Len(se))]))

\* slice_by_tracer
slice_by_tracer(se, to_slice, tracer) ==
    SelectIdx(to_slice, {i \in 1..Len(se) : Split(se[i])[1] = tracer}, Len(to_slice))

(***************************************************************************)
(* Algorithm of total inversion (linear variant).                          *)
(***************************************************************************)
\* find_solution: max_iterations
max_iterations == 100

\* check_convergence: max_change_limit = 10**-6
max_change_limit == <<1, 1000000>>

\* faulty variant: one pass too many
InRangeOffByOne(count) == count <= max_iterations

\* "for count in range(max_iterations)": the pass with this count runs
InRange(count) == count < max_iterations

\* faulty variant: the test is applied in the first pass too
TestAlways(count) == TRUE

\* "if count > 0": the convergence test is applied in this pass
TestApplies(count) == count > 0

\* calculate_xkp1; LinAlgError when np.linalg.inv(FCoFT) raises
calculate_xkp1(xo_, Co, xk, f, F) ==
    LET CoFT == MatMul(Co, Transpose(F))
        FCoFT == MatMul(F, CoFT)
        FCoFTi == Inv(FCoFT)
    IN  IF FCoFTi = LinAlgError THEN LinAlgError
        ELSE << VAdd(xo_, MatVec(MatMul(CoFT, FCoFTi),
                                 VSub(MatVec(F, VSub(xk, xo_)), f))),
                CoFT, FCoFTi >>

\* check_convergence: np.max(change) and the verdict
MaxChange(xk, xkp1) ==
    VMax(Tup([i \in 1..Len(xk) |-> RAbs(RDiv(RSub(xkp1[i], xk[i]), xk[i]))]))

check_convergence(xk, xkp1) == RLess(MaxChange(xk, xkp1), max_change_limit)

\* calculate_cost; LinAlgError when np.linalg.inv(run.Co) raises
calculate_cost(xo_, Co, x) ==
    LET Coi == Inv(Co)
        d == VSub(x, xo_)
    IN  IF Coi = LinAlgError THEN LinAlgError
        ELSE Dot(MatVec(Transpose(Coi), d), d)

\* unpack_state_estimates: Ckp1
PosteriorCovariance(Co, F, CoFT, FCoFTi) ==
    MatSub(Co, MatMul(MatMul(MatMul(CoFT, FCoFTi), F), Co))

(***************************************************************************)
(* Python dictionaries: a sequence of <<key, value>> in insertion order.   *)
(***************************************************************************)
EmptyDict == <<>>

Keys(dict) == Tup([k \in 1..Len(dict) |-> dict[k][1]])

Lookup(dict, key) == dict[Index(Keys(dict), key)][2]

(***************************************************************************)
(* PyriteModelRun (linear variant).  params and Co are attributes the      *)
(* builders add; they are None until then.  Of the results, the model      *)
(* keeps those the inversion and calculate_residuals write.                *)
(***************************************************************************)
\* faulty variant: gamma and rel_err stored in each other's attribute
PyriteModelRunSwapped(gamma, rel_err) ==
    [gamma |-> rel_err, rel_err |-> gamma,
     params |-> None, Co |-> None,
     cost_evolution |-> <<>>, convergence_evolution |-> <<>>,
     converged |-> FALSE, cvm |-> None,
     tracer_results |-> EmptyDict, param_results |-> EmptyDict,
     integrated_resids |-> EmptyDict,
     x_resids |-> None, f_check |-> EmptyDict]

PyriteModelRun(gamma, rel_err) ==
    [gamma |-> gamma, rel_err |-> rel_err,
     params |-> None, Co |-> None,
     cost_evolution |-> <<>>, convergence_evolution |-> <<>>,
     converged |-> FALSE, cvm |-> None,
     tracer_results |-> EmptyDict, param_results |-> EmptyDict,
     integrated_resids |-> EmptyDict,
     x_resids |-> None, f_check |-> EmptyDict]

\* the results unpack_state_estimates stores in the run
TracerResults(se, xhat_, xhat_e) ==
    Tup([s \in 1..Len(tracer_names) |->
        << tracer_names[s],
           [est |-> slice_by_tracer(se, xhat_, tracer_names[s]),
            err |-> slice_by_tracer(se, xhat_e, tracer_names[s])] >>])

IntegratedResids(se, xhat_, xhat_e) ==
    Tup([s \in 1..Len(tracer_names) |->
        << tracer_names[s],
           Tup([z \in 1..Len(zone_names) |->
               LET i == Index(se, "R" \o tracer_names[s] \o "_" \o zone_names[z])
               IN  << zone_names[z], <<xhat_[i], xhat_e[i]>> >>]) >>])

ParamResults(se, params, xhat_, xhat_e) ==
    Tup([k \in 1..Len(params) |->
        << params[k].name,
           IF params[k].dv
           THEN Tup([z \in 1..Len(zone_names) |->
                    LET i == Index(se, params[k].name \o "_" \o zone_names[z])
                    IN  << zone_names[z], [est |-> xhat_[i], err |-> xhat_e[i]] >>])
           ELSE LET i == Index(se, params[k].name)
                IN  [est |-> xhat_[i], err |-> xhat_e[i]] >>])

\* calculate_residuals: x_resids, each (xhat - xo) over sqrt(Co[i,i])
XResids(xo_, Co, xhat_) ==
    Tup([i \in 1..Len(xo_) |-> <<RSub(xhat_[i], xo_[i]), RSqrt(Co[i][i])>>])

\* calculate_residuals: f_check
FCheck(se, ee, eqsys, xhat_) ==
    LET eq_resids == EvaluateF(se, ee, eqsys, xhat_)
    IN  Tup([s \in 1..Len(tracer_names) |->
            << tracer_names[s], slice_by_tracer(se, eq_resids, tracer_names[s]) >>])

(***************************************************************************)
(* eval_symbolic_func: the value of an expression of state elements at the *)
(* results of a run, and its error propagated from the posterior           *)
(* covariance run.cvm.                                                     *)
(***************************************************************************)
\* faulty variant: the residual of the first zone, whatever the zone
SymbolValueFirstZone(run_, name) ==
    IF Contains(name, "_")
    THEN LET element == Split(name)[1]
             zone == Split(name)[2]
         IN  IF InList(element, tracer_names)
             THEN Lookup(run_.tracer_results, element).est[Index(zone_names, zone)]
             ELSE IF InList(Tail(element), tracer_names)
             THEN Lookup(Lookup(run_.integrated_resids, Tail(element)), zone_names[1])[1]
             ELSE Lookup(Lookup(run_.param_results, element), zone).est
    ELSE Lookup(run_.param_results, name).est

\* the value appended to x_numerical for the symbol of a name
SymbolValue(run_, name) ==
    IF Contains(name, "_")
    THEN LET element == Split(name)[1]
             zone == Split(name)[2]
         IN  IF InList(element, tracer_names)
             THEN Lookup(run_.tracer_results, element).est[Index(zone_names, zone)]
             ELSE IF InList(Tail(element), tracer_names)
             THEN Lookup(Lookup(run_.integrated_resids, Tail(element)), zone)[1]
             ELSE Lookup(Lookup(run_.param_results, element), zone).est
    ELSE Lookup(run_.param_results, name).est

\* faulty variant: the sub-matrix at the indices in ascending order
SubMatrixSorted(M, x_indices) ==
    Tup([i \in 1..Len(x_indices) |->
        Tup([j \in 1..Len(x_indices) |->
            M[InOrder({x_indices[k] : k \in 1..Len(x_indices)})[i]]
             [InOrder({x_indices[k] : k \in 1..Len(x_indices)})[j]]])])

\* run.cvm[np.ix_(x_indices, x_indices)]
SubMatrix(M, x_indices) ==
    Tup([i \in 1..Len(x_indices) |->
        Tup([j \in 1..Len(x_indices) |-> M[x_indices[i]][x_indices[j]]])])

\* faulty variant: the cross terms are added whatever cov is
VarianceSymAlwaysCov(derivs, cvm, cov) ==
    PSum(Tup([i \in 1..Len(cvm) |->
        PSum(Tup([j \in 1..Len(cvm[i]) |->
            IF i > j THEN <<>>
            ELSE IF i = j THEN PScale(cvm[i][j], PMul(derivs[i], derivs[i]))
            ELSE PScale(RMul(Int2R(2), cvm[i][j]), PMul(derivs[i], derivs[j]))]))]))

\* variance_sym after the loops over the rows and columns of cvm
VarianceSym(derivs, cvm, cov) ==
    PSum(Tup([i \in 1..Len(cvm) |->
        PSum(Tup([j \in 1..Len(cvm[i]) |->
            IF i > j THEN <<>>
            ELSE IF i = j THEN PScale(cvm[i][j], PMul(derivs[i], derivs[i]))
            ELSE IF cov
            THEN PScale(RMul(Int2R(2), cvm[i][j]), PMul(derivs[i], derivs[j]))
            ELSE <<>>]))]))

\* eval_symbolic_func on the symbols x_symbolic of y
EvalSymbolicAt(se, run_, y, x_symbolic, err, cov) ==
    LET x_indices == Tup([j \in 1..Len(x_symbolic) |-> Index(se, x_symbolic[j])])
        x_numerical == Tup([j \in 1..Len(x_symbolic) |-> SymbolValue(run_, x_symbolic[j])])
        result == Lambdify(x_symbolic, y, x_numerical)
        derivs == Tup([j \in 1..Len(x_symbolic) |-> Diff(y, x_symbolic[j])])
        variance_sym == VarianceSym(derivs, SubMatrix(run_.cvm, x_indices), cov)
    IN  IF ~err THEN <<result>>
        ELSE <<result, RSqrt(Lambdify(x_symbolic, variance_sym, x_numerical))>>

\* eval_symbolic_func(run, y, err, cov): (result, error), or (result,)
eval_symbolic_func(se, run_, y, err, cov) ==
    EvalSymbolicAt(se, run_, y, FreeSymbols(y), err, cov)

\* expressions the derived quantities are made of: a bare state element, a
\* sum of tracers, a sum of residuals, a flux, a budget (production less
\* sinking flux and residual), a scaled parameter
Expressions(se) ==
    {S(se[i]) : i \in 1..Len(se)}
        \cup { PAdd(S("POCS_" \o zone_names[1]), S("POCL_" \o zone_names[1])),
               PAdd(S("RPOCS_" \o zone_names[1]), S("RPOCS_" \o zone_names[2])),
               PMul(S("ws_" \o zone_names[1]), S("POCS_" \o zone_names[1])),
               PSub(PScale(Int2R(mld), S("P30")),
                    PAdd(PMul(S("ws_" \o zone_names[1]), S("POCS_" \o zone_names[1])),
                         S("RPOCS_" \o zone_names[1]))),
               PScale(Int2R(mld), S("P30")) }

(***************************************************************************)
(* Inputs of a construction.                                               *)
(***************************************************************************)
\* the gammas and relative errors a caller may pass
GammaValues == Tup([i \in 1..MaxGammas |-> Norm(i, 2)])

RelErrValues == Tup([i \in 1..MaxRelErrs |-> Norm(i, 4)])

\* a caller passes no value or all of them
Choices(list) == {<<>>, list}

\* the data and equation sets a construction is run on
Scenarios ==
    { <<"offset", "balance">>, <<"balanced", "balance">>, <<"gap", "balance">>,
      <<"exact", "balance">>, <<"offset", "newton">>, <<"offset", "cycle">>,
      <<"offset", "duplicate">> }

(***************************************************************************)
(* The construction of a PyriteModel as a state machine.                   *)
(***************************************************************************)
VARIABLES
    variant,            \* "linear" (old_code.py) or "log" (pyrite.py)
    gammas,             \* self.gammas
    rel_errs,           \* self.rel_errs (linear variant)
    data,               \* the input data set
    eqsys,              \* the equation set
    state_elements,     \* self.state_elements
    equation_elements,  \* self.equation_elements
    xo,                 \* self.xo (linear); xo, xo_log, Co, Co_log (log)
    runs,               \* the PyriteModelRun objects, by identity
    model_runs,         \* self.model_runs: identities of the appended runs
    run,                \* the run of the current loop pass (0: none yet)
    gi,                 \* position of the loop over gammas
    ri,                 \* position of the loop over rel_errs
    pc,                 \* the statement of __init__ about to execute
    ati,                \* local variables of find_solution
    xhat,               \* the value ATI returned
    exc,                \* the exception that left __init__ ("" if none)
    plan,               \* float outcomes of the current run (log variant)
    call,               \* the arguments of a direct call of a method
    ret                 \* the values such calls returned, in order

\* scripts/geotraces/run.py: the ensemble driver and its pool of processes
VARIABLES
    tasks,              \* inputs: the (station, parameter set) pairs, in order
    next_task,          \* position in tasks of the next one a worker is given
    workers,            \* the task each worker process runs (0: none)
    status,             \* of each task: "queued", "running" or its outcome
    output,             \* the files in output_path
    main_pc,            \* the statement of __main__ about to execute
    solves,             \* of each task: what its calls of find_solution did
    printed,            \* the lines the tasks printed
    writes              \* of each task: the paths it opened for writing

vars == << variant, gammas, rel_errs, data, eqsys, state_elements,
           equation_elements, xo, runs, model_runs, run, gi, ri, pc, ati,
           xhat, exc, plan, order, call, ret,
           tasks, next_task, workers, status, output, main_pc,
           solves, printed, writes >>

inputs == << variant, gammas, rel_errs, data, eqsys, order >>

calls == << call, ret >>

driver == << tasks, next_task, workers, status, output, main_pc,
            solves, printed, writes >>

\* no ensemble driver runs
NoDriver ==
    /\ tasks = <<>>
    /\ next_task = 0
    /\ workers = <<>>
    /\ status = <<>>
    /\ output = {}
    /\ main_pc = "none"
    /\ solves = <<>>
    /\ printed = {}
    /\ writes = <<>>

NoCall == [fn |-> "none"]

\* faulty variant: one run object, created once and used by every pass
ReusedRun(heap) == 1

\* the identity of a newly created object
NewRun(heap) == Len(heap) + 1

\* bind an identity to an object
Store(heap, id, obj) ==
    IF id \in 1..Len(heap) THEN [heap EXCEPT ![id] = obj] ELSE Append(heap, obj)

\* the loops "for g in self.gammas: for re in self.rel_errs": the pass after
\* pass (g, r)
NextPass(g, r, n_rel_errs) == IF r < n_rel_errs THEN <<g, r + 1>> ELSE <<g + 1, 1>>

\* both loops are exhausted
LoopsDone(g, n_gammas, n_rel_errs) == g > n_gammas \/ n_rel_errs = 0

NoLocals == [count |-> 0, xk |-> None, xkp1 |-> None, F |-> None,
             CoFT |-> None, FCoFTi |-> None]

NoPlan == [kind |-> "none", at |-> 0]

Init ==
    /\ NoDriver
    /\ variant \in {"linear", "log"}
    /\ gammas \in Choices(GammaValues)
    /\ rel_errs \in IF variant = "linear" THEN Choices(RelErrValues) ELSE {<<>>}
    /\ \E sc \in IF variant = "linear" THEN Scenarios ELSE {<<"offset", "balance">>} :
          data = sc[1] /\ eqsys = sc[2]
    /\ state_elements = None
    /\ equation_elements = None
    /\ xo = None
    /\ runs = <<>>
    /\ model_runs = <<>>
    /\ run = 0
    /\ gi = 1
    /\ ri = 1
    /\ pc = IF variant = "linear" THEN "loop" ELSE "build"
    /\ ati = NoLocals
    /\ xhat = None
    /\ exc = ""
    /\ plan = NoPlan
    /\ order \in Orders
    /\ call = NoCall
    /\ ret = <<>>

\* old_code.py __init__: run = PyriteModelRun(g, re); self.define_params(run)
StartRun ==
    /\ variant = "linear"
    /\ pc = "loop"
    /\ ~LoopsDone(gi, Len(gammas), Len(rel_errs))
    /\ run' = NewRun(runs)
    /\ runs' = Store(runs, run',
                     [PyriteModelRun(gammas[gi], rel_errs[ri])
                         EXCEPT !.params = define_params(rel_errs[ri])])
    /\ pc' = "elements"
    /\ UNCHANGED << inputs, driver, calls, state_elements, equation_elements, xo, model_runs,
                    gi, ri, ati, xhat, exc, plan >>

\* self.define_state_and_equation_elements(run)
DefineElements ==
    /\ variant = "linear"
    /\ pc = "elements"
    /\ state_elements' = StateElements(runs[run].params)
    /\ equation_elements' = EquationElements
    /\ pc' = "priors"
    /\ UNCHANGED << inputs, driver, calls, xo, runs, model_runs, run, gi, ri, ati, xhat, exc, plan >>

\* self.define_prior_vector_and_cov_matrix(run)
DefinePriors ==
    /\ variant = "linear"
    /\ pc = "priors"
    /\ LET lists == PriorLists(data, runs[run].gamma, runs[run].params)
       IN  /\ xo' = lists.xo
           /\ runs' = [runs EXCEPT ![run].Co = DiagMatrix(lists.Co)]
    /\ pc' = "enter"
    /\ UNCHANGED << inputs, driver, calls, state_elements, equation_elements, model_runs, run,
                    gi, ri, ati, xhat, exc, plan >>

\* ATI, find_solution before its loop: xk = self.xo; xkp1 = np.ones(len(xk))
EnterATI ==
    /\ variant = "linear"
    /\ pc = "enter"
    /\ ati' = [NoLocals EXCEPT !.xk = xo, !.xkp1 = Repeat(One, Len(xo))]
    /\ pc' = "ati"
    /\ UNCHANGED << inputs, driver, calls, state_elements, equation_elements, xo, runs,
                    model_runs, run, gi, ri, xhat, exc, plan >>

\* faulty variant: the cost is recorded with the convergence test, from the
\* second pass on
RecordCostWhenTested(cost_evolution, count, cost) ==
    IF count > 0 THEN Append(cost_evolution, cost) ELSE cost_evolution

\* calculate_cost: run.cost_evolution.append(cost), in the pass with the loop
\* counter count
RecordCost(cost_evolution, count, cost) == Append(cost_evolution, cost)

\* one pass of the loop of find_solution
Iterate ==
    /\ variant = "linear"
    /\ pc = "ati"
    /\ \E f \in {EvaluateF(state_elements, equation_elements, eqsys, ati.xk)} :
       \E F \in {EvaluateJacobian(state_elements, equation_elements, eqsys, ati.xk)} :
       \E step \in {calculate_xkp1(xo, runs[run].Co, ati.xk, f, F)} :
       \E cost \in {IF step = LinAlgError THEN LinAlgError
                    ELSE calculate_cost(xo, runs[run].Co, step[1])} :
       \E tested \in {TestApplies(ati.count)} :
       \E converged \in {tested /\ step # LinAlgError /\ cost # LinAlgError
                           /\ check_convergence(ati.xk, step[1])} :
           IF step = LinAlgError
           THEN /\ pc' = "raised"
                /\ exc' = "LinAlgError"
                /\ UNCHANGED << runs, ati >>
           ELSE IF cost = LinAlgError
           THEN /\ pc' = "raised"
                /\ exc' = "LinAlgError"
                /\ ati' = [ati EXCEPT !.xkp1 = step[1], !.F = F,
                                      !.CoFT = step[2], !.FCoFTi = step[3]]
                /\ UNCHANGED runs
           ELSE /\ runs' = [runs EXCEPT
                     ![run].cost_evolution = RecordCost(@, ati.count, cost),
                     ![run].convergence_evolution =
                         IF tested THEN Append(@, MaxChange(ati.xk, step[1])) ELSE @,
                     ![run].converged = IF tested THEN converged ELSE @]
                /\ ati' = [count |-> IF converged THEN ati.count ELSE ati.count + 1,
                           xk |-> IF converged THEN ati.xk ELSE step[1],
                           xkp1 |-> step[1], F |-> F,
                           CoFT |-> step[2], FCoFTi |-> step[3]]
                /\ pc' = IF converged \/ ~InRange(ati.count + 1)
                         THEN "unpack" ELSE "ati"
                /\ UNCHANGED exc
    /\ UNCHANGED << inputs, driver, calls, state_elements, equation_elements, xo, model_runs,
                    run, gi, ri, xhat, plan >>

\* faulty variant: the initial value of xkp1 is returned, not the iterate
ReturnsOnes(locals) ==
    [F |-> locals.F, xkp1 |-> Repeat(One, Len(locals.xk)), CoFT |-> locals.CoFT,
     FCoFTi |-> locals.FCoFTi]

\* faulty variant: the Jacobian is evaluated once more, at the estimate
find_solution_reevaluates(locals) ==
    [F |-> EvaluateJacobian(state_elements, equation_elements, eqsys, locals.xkp1),
     xkp1 |-> locals.xkp1, CoFT |-> locals.CoFT, FCoFTi |-> locals.FCoFTi]

\* find_solution: "return F, xkp1, CoFT, FCoFTi"
find_solution_return(locals) ==
    [F |-> locals.F, xkp1 |-> locals.xkp1, CoFT |-> locals.CoFT,
     FCoFTi |-> locals.FCoFTi]

\* unpack_state_estimates after find_solution returned; ATI returns xhat
Unpack ==
    /\ variant = "linear"
    /\ pc = "unpack"
    /\ \E sol \in {find_solution_return(ati)} :
       \E Ckp1 \in {PosteriorCovariance(runs[run].Co, sol.F, sol.CoFT, sol.FCoFTi)} :
       \E xhat_e \in {Tup([i \in 1..Len(Ckp1) |-> RSqrt(Ckp1[i][i])])} :
           /\ runs' = [runs EXCEPT
                 ![run].cvm = Ckp1,
                 ![run].tracer_results = TracerResults(state_elements, sol.xkp1, xhat_e),
                 ![run].integrated_resids =
                     IntegratedResids(state_elements, sol.xkp1, xhat_e),
                 ![run].param_results =
                     ParamResults(state_elements, runs[run].params, sol.xkp1, xhat_e)]
           /\ xhat' = sol.xkp1
    /\ pc' = "derive"
    /\ UNCHANGED << inputs, driver, calls, state_elements, equation_elements, xo, model_runs,
                    run, gi, ri, ati, exc, plan >>

\* calculate_residuals and the derived quantities that follow it
Derive ==
    /\ variant = "linear"
    /\ pc = "derive"
    /\ runs' = [runs EXCEPT
          ![run].x_resids = XResids(xo, runs[run].Co, xhat),
          ![run].f_check = FCheck(state_elements, equation_elements, eqsys, xhat)]
    /\ pc' = "append"
    /\ call' = NoCall
    /\ ret' = <<>>
    /\ UNCHANGED << inputs, driver, state_elements, equation_elements, xo, model_runs,
                    run, gi, ri, ati, xhat, exc, plan >>

\* a call eval_symbolic_func(run, y, err, cov) made on the results of the run
\* while its derived quantities are computed
EvalSymbolicFunc ==
    /\ variant = "linear"
    /\ pc = "derive"
    /\ call = NoCall
    /\ \E y \in Expressions(state_elements) : \E err, cov \in BOOLEAN :
       \E c \in {[fn |-> "eval_symbolic_func", y |-> y, err |-> err, cov |-> cov]} :
           /\ call' = c
           /\ ret' = <<eval_symbolic_func(state_elements, runs[run], c.y, c.err, c.cov)>>
    /\ UNCHANGED << inputs, driver, state_elements, equation_elements, xo, runs, model_runs,
                    run, gi, ri, pc, ati, xhat, exc, plan >>

\* self.model_runs.append(run), and on to the next pass of the loops
AppendRun ==
    /\ variant = "linear"
    /\ pc = "append"
    /\ model_runs' = Append(model_runs, run)
    /\ gi' = NextPass(gi, ri, Len(rel_errs))[1]
    /\ ri' = NextPass(gi, ri, Len(rel_errs))[2]
    /\ pc' = "loop"
    /\ UNCHANGED << inputs, driver, calls, state_elements, equation_elements, xo, runs, run,
                    ati, xhat, exc, plan >>

\* self.pickle_model() once the loops are exhausted
Pickle ==
    /\ variant = "linear"
    /\ pc = "loop"
    /\ LoopsDone(gi, Len(gammas), Len(rel_errs))
    /\ pc' = "done"
    /\ UNCHANGED << inputs, driver, calls, state_elements, equation_elements, xo, runs,
                    model_runs, run, gi, ri, ati, xhat, exc, plan >>

(***************************************************************************)
(* The log variant (src/pyrite.py).  Its numbers go through exp and log;   *)
(* a value is named by the computation that produced it, and the float     *)
(* outcomes of a run (np.max(change) of each iteration, an inversion       *)
(* that raises) come from the plan chosen when the run starts:             *)
(*   "converge" at c   the change is below the limit from iteration c on   *)
(*   "never"           the change stays above the limit                    *)
(*   "limit"           the change stays equal to the limit                 *)
(*   "nan"             the change is nan (a nan among the priors)          *)
(*   "singular" at s   np.linalg.inv raises in iteration s                 *)
(*   "overflow" at o   np.exp(xkp1) overflows in iteration o: numpy issues *)
(*                     "RuntimeWarning: overflow encountered in exp" with  *)
(*                     warnings.warn, which shows it and goes on (no       *)
(*                     filter is set), and returns inf; the change is inf  *)
(*                     and afterwards nan                                  *)
(***************************************************************************)
\* find_solution: max_iterations (pyrite.py)
max_iterations_log == 25

\* check_convergence: max_change_limit = 0.01 (pyrite.py)
max_change_limit_log == <<1, 100>>

LogPlans ==
    [kind : {"converge"}, at : {1, 2, max_iterations_log}]
        \cup [kind : {"never", "limit", "nan"}, at : {0}]
        \cup [kind : {"singular"}, at : {1, 3}]
        \cup [kind : {"overflow"}, at : {1}]

\* np.max(change) in iteration k of a run
PlanChange(p, k) ==
    IF p.kind = "nan" THEN NaN
    ELSE IF p.kind = "limit" THEN max_change_limit_log
    ELSE IF p.kind = "overflow" /\ k = p.at THEN PosInf
    ELSE IF p.kind = "overflow" /\ k > p.at THEN NaN
    ELSE IF p.kind = "converge" /\ k >= p.at THEN <<1, 1000>>
    ELSE One

\* np.linalg.inv raises in iteration k of a run
PlanSingular(p, k) == p.kind = "singular" /\ k = p.at

\* "for _ in range(max_iterations)" (pyrite.py)
InRangeLog(count) == count < max_iterations_log

\* check_convergence (pyrite.py)
check_convergence_log(change) == RLess(change, max_change_limit_log)

\* PyriteModelRun (pyrite.py)
PyriteModelRunLog(gamma) ==
    [gamma |-> gamma,
     cost_evolution |-> <<>>, convergence_evolution |-> <<>>,
     converged |-> FALSE, cvm |-> None,
     tracer_results |-> EmptyDict, param_results |-> EmptyDict,
     x_resids |-> None, f_resids |-> None]

\* define_zones (pyrite.py)
zone_names_log == <<"LEZ", "UMZ">>

\* N_GRID_POINTS, cut with the model's NZones (each of the two grid zones
\* keeps at least two grid points)
N_GRID_POINTS == NZones + 2

\* str(i) of a grid index
Str(i) ==
    IF i \in 0..9 THEN <<"0", "1", "2", "3", "4", "5", "6", "7", "8", "9">>[i + 1]
    ELSE "?"

\* define_params (pyrite.py): one parameter of each kind
define_params_log ==
    << Param(Int2R(2), Int2R(2), "ws", TRUE),
       Param(P30Prior.prior, P30Prior.prior_e, "P30", FALSE) >>

TracerKeysLog ==
    Flatten(Tup([s \in 1..Len(tracer_names) |->
        Tup([i \in 1..N_GRID_POINTS |-> tracer_names[s] \o "_" \o Str(i - 1)])]))

ParamKeysLog(p) ==
    IF p.dv
    THEN Tup([z \in 1..Len(zone_names_log) |-> p.name \o "_" \o zone_names_log[z]])
    ELSE <<p.name>>

\* define_prior_vector_and_cov_matrix (pyrite.py): self.state_elements
StateElementsLog(params) ==
    TracerKeysLog \o Flatten(Tup([k \in 1..Len(params) |-> ParamKeysLog(params[k])]))

\* define_equation_elements (pyrite.py)
EquationElementsLog ==
    TracerKeysLog \o Tup([i \in 1..N_GRID_POINTS |-> "POCT_" \o Str(i - 1)])

(***************************************************************************)
(* Objective interpolation and the prior covariance of the log variant.    *)
(* The grid is cut to N_GRID_POINTS depths with a coarser step, so that    *)
(* the boundary at 112.5 m still separates LEZ from UMZ.  The correlation  *)
(* exp(-|d|/L) of R_matrix has no exact value: it is replaced by           *)
(* 1/(1 + |d|/L), which is also 1 at d = 0, symmetric in d and decreasing. *)
(* np.log(q) is kept as <<n, d, "log">> for q = n/d, with np.log(1) = 0.   *)
(***************************************************************************)
\* GRID_STEP of the cut grid (pyrite.py has 5)
GRID_STEP == 50

\* self.GRID = np.arange(MIXED_LAYER_DEPTH, MAX_DEPTH + GRID_STEP, GRID_STEP)
GRID == Tup([i \in 1..N_GRID_POINTS |-> mld + GRID_STEP * (i - 1)])

\* self.BOUNDARY = 112.5
BOUNDARY == <<225, 2>>

\* GridZone.__init__: indices (from 1) of the grid depths of a zone;
\* define_zones: LEZ = GridZone(self, np.less, ..), UMZ = (np.greater)
ZoneIndices(label) ==
    SelectIdx(Tup([i \in 1..N_GRID_POINTS |-> i]),
              {i \in 1..N_GRID_POINTS :
                  IF label = "LEZ" THEN RLess(Int2R(GRID[i]), BOUNDARY)
                  ELSE RLess(BOUNDARY, Int2R(GRID[i]))},
              N_GRID_POINTS)

\* GridZone.depths
ZoneDepths(label) ==
    LET ind == ZoneIndices(label)
    IN  Tup([k \in 1..Len(ind) |-> GRID[ind[k]]])

\* GridZone.length_scale (the fit of calculate_length_scales, an input)
length_scale(label) == IF label = "LEZ" THEN GRID_STEP ELSE 2 * GRID_STEP

\* Tracer.data (pyrite.py): depth, conc, conc_e of each sample; the samples
\* are at the grid depths
TracerData(name) ==
    Tup([i \in 1..N_GRID_POINTS |->
        [depth |-> GRID[i],
         conc |-> IF name = "POCS" THEN Norm(i + 1, 2) ELSE Norm(i + 2, 4),
         conc_e |-> <<1, 2>>]])

\* np.log
Log(q) ==
    IF q = NaN \/ q[1] < 0 THEN NaN
    ELSE IF q = Zero THEN NegInf
    ELSE IF q = PosInf THEN PosInf
    ELSE IF q = One THEN Zero
    ELSE <<q[1], q[2], "log">>

\* R_matrix(list1, list2) of objective_interpolation, with length scale L
R_matrix(list1, list2, L) ==
    Tup([i \in 1..Len(list1) |->
        Tup([j \in 1..Len(list2) |-> Norm(L, L + Abs(list1[i] - list2[j]))])])

\* a matrix times a scalar
MatScale(A, c) ==
    Tup([i \in 1..Len(A) |-> Tup([j \in 1..Len(A[i]) |-> RMul(A[i][j], c)])])

MatAdd(A, B) == Tup([i \in 1..Len(A) |-> VAdd(A[i], B[i])])

\* np.var(v, ddof=1)
SampleVariance(v) ==
    LET mean == RDiv(VSum(v), Int2R(Len(v)))
    IN  RDiv(VSum(Tup([i \in 1..Len(v) |-> Square(RSub(v[i], mean))])),
             Int2R(Len(v) - 1))

\* objective_interpolation: conc_oi = Rxy Ryy^-1 conc_anom + mean and
\* P = Rxxnn - Rxy Ryy^-1 Rxy^T
OIEstimate(depths, conc_anom, mean, Rxxnn, Rxy, gain) ==
    [conc |-> Tup([k \in 1..Len(depths) |-> RAdd(MatVec(gain, conc_anom)[k], mean)]),
     P |-> MatSub(Rxxnn, MatMul(gain, Transpose(Rxy)))]

\* objective_interpolation: the correlation matrices scaled by conc_var
OIMatrices(depths, conc_anom, mean, Rnn, Rxxmm, Rxxnn, Rxy) ==
    OIEstimate(depths, conc_anom, mean, Rxxnn, Rxy,
               MatMul(Rxy, Inv(MatAdd(Rxxmm, Rnn))))

\* objective_interpolation: from the mean and the variances of the samples
OIMoments(L, depths, sample_depths, conc, mean, conc_var_discrete, conc_var) ==
    OIMatrices(depths,
               Tup([k \in 1..Len(conc) |-> RSub(conc[k], mean)]),
               mean,
               DiagMatrix(conc_var_discrete),
               MatScale(R_matrix(sample_depths, sample_depths, L), conc_var),
               MatScale(R_matrix(depths, depths, L), conc_var),
               MatScale(R_matrix(depths, sample_depths, L), conc_var))

\* objective_interpolation: from the depths and concentrations of the samples
OISamples(L, depths, sample_depths, conc, conc_var_discrete) ==
    OIMoments(L, depths, sample_depths, conc,
              RDiv(VSum(conc), Int2R(Len(conc))),
              conc_var_discrete,
              RAdd(SampleVariance(conc),
                   RDiv(VSum(conc_var_discrete), Int2R(Len(sample_depths)))))

\* objective_interpolation: from the samples of the tracer within the zone
OIZone(L, depths, zone_data) ==
    OISamples(L, depths,
              Tup([k \in 1..Len(zone_data) |-> zone_data[k].depth]),
              Tup([k \in 1..Len(zone_data) |-> zone_data[k].conc]),
              Tup([k \in 1..Len(zone_data) |-> Square(zone_data[k].conc_e)]))

\* the samples of a tracer between the first and the last depth of a zone
ZoneData(all, depths) ==
    SelectIdx(all,
              {k \in 1..Len(all) :
                  /\ all[k].depth >= depths[1]
                  /\ all[k].depth <= depths[Len(depths)]},
              Len(all))

\* objective_interpolation, one tracer in one zone: the interpolated
\* concentrations conc_oi on the zone's grid depths and their covariance P
objective_interpolation(name, label) ==
    OIZone(length_scale(label), ZoneDepths(label),
           ZoneData(TracerData(name), ZoneDepths(label)))

\* scipy.linalg.block_diag(*blocks)
RECURSIVE block_diag(_)
block_diag(blocks) ==
    IF blocks = <<>> THEN <<>>
    ELSE CHOOSE r \in
           { Tup([i \in 1..Len(A) |-> A[i] \o Repeat(Zero, NCols(B))])
                 \o Tup([i \in 1..Len(B) |-> Repeat(Zero, NCols(A)) \o B[i]]) :
             A \in {Head(blocks)}, B \in {block_diag(Tail(blocks))} } : TRUE

\* faulty variant: the 1 is left out of the logarithm
CoLogEntryNoOne(val, xi, xj) == Log(RDiv(val, RMul(xi, xj)))

\* one entry of Co_log: np.log(1 + val/(xo[i]*xo[j]))
CoLogEntry(val, xi, xj) == Log(RAdd(One, RDiv(val, RMul(xi, xj))))

\* define_prior_vector_and_cov_matrix (pyrite.py): xo_log and Co_log of xo, Co
PriorsOf(x, C) ==
    [xo |-> x,
     xo_log |-> Tup([i \in 1..Len(x) |-> Log(x[i])]),
     Co |-> C,
     Co_log |-> Tup([i \in 1..Len(C) |->
                   Tup([j \in 1..Len(C) |-> CoLogEntry(C[i][j], x[i], x[j])])])]

\* define_prior_vector_and_cov_matrix (pyrite.py): xo and Co from the
\* interpolation oi of every tracer in every zone and the priors pp of the
\* parameters
PriorsFrom(oi, pp) ==
    PriorsOf(
        Flatten(Tup([s \in 1..Len(oi) |->
            Flatten(Tup([z \in 1..Len(oi[s]) |-> oi[s][z].conc]))]))
          \o Flatten(Tup([k \in 1..Len(pp) |-> pp[k].xo])),
        block_diag(
            Flatten(Tup([s \in 1..Len(oi) |->
                Tup([z \in 1..Len(oi[s]) |-> oi[s][z].P])]))
              \o <<DiagMatrix(Flatten(Tup([k \in 1..Len(pp) |-> pp[k].Co])))>>))

\* define_prior_vector_and_cov_matrix (pyrite.py): xo, xo_log, Co, Co_log
PriorsLog(params) ==
    PriorsFrom(
        Tup([s \in 1..Len(tracer_names) |->
            Tup([z \in 1..Len(zone_names_log) |->
                objective_interpolation(tracer_names[s], zone_names_log[z])])]),
        Tup([k \in 1..Len(params) |->
            IF params[k].dv
            THEN [xo |-> Repeat(params[k].prior, Len(zone_names_log)),
                  Co |-> Repeat(Square(params[k].prior_e), Len(zone_names_log))]
            ELSE [xo |-> <<params[k].prior>>,
                  Co |-> <<Square(params[k].prior_e)>>]]))

(***************************************************************************)
(* The equations of the log variant, over its eight parameters.  The       *)
(* symbols of an equation name the tracers by their depth relative to the  *)
(* equation's own: POCS_0, POCS_1, POCS_-1, POCS_-2.                       *)
(***************************************************************************)
\* define_params (pyrite.py): the names of the parameters
dv_param_names_log == <<"ws", "wl", "B2p", "Bm2", "Bm1s", "Bm1l">>

dc_param_names_log == <<"P30", "Lp">>

\* the state elements with every parameter of define_params
AllStateElementsLog ==
    TracerKeysLog
        \o Flatten(Tup([k \in 1..Len(dv_param_names_log) |->
               Tup([z \in 1..Len(zone_names_log) |->
                   dv_param_names_log[k] \o "_" \o zone_names_log[z]])]))
        \o dc_param_names_log

\* faulty variant: the grid index looked up one position too low
which_zone_shifted(depth) == IF InList(depth, ZoneIndices("LEZ")) THEN "LEZ" ELSE "UMZ"

\* which_zone (depth is a grid index from 0)
which_zone(depth) == IF InList(depth + 1, ZoneIndices("LEZ")) THEN "LEZ" ELSE "UMZ"

\* int(s) of a relative or a real depth ("0" is at no position: 0)
ParseInt(s) ==
    IF Head(s) = "-" THEN 0 - (Index(<<"1", "2", "3", "4", "5", "6", "7", "8", "9">>, Tail(s)))
    ELSE Index(<<"1", "2", "3", "4", "5", "6", "7", "8", "9">>, s)

\* self.Pt_constraint: total POC from beam attenuation, by grid index
Pt_constraint(depth) == Norm(5, depth + 2)

\* equation_builder (pyrite.py); depth is a grid index from 0
model_equation_log(species, depth, params_known) ==
    LET z == which_zone(depth)
        P(name) == IF params_known THEN K(KnownEstimate(name, IF name \in {"P30", "Lp"}
                                                               THEN "" ELSE
                                                               IF z = "LEZ" THEN "A" ELSE "B"))
                   ELSE S(name)
        Psi == S("POCS_0")
        Psip1 == S("POCS_1")
        Psim1 == S("POCS_-1")
        Psim2 == S("POCS_-2")
        Pli == S("POCL_0")
        Plip1 == S("POCL_1")
        Plim1 == S("POCL_-1")
        Plim2 == S("POCL_-2")
        h == Int2R(mld)
        step == <<1, 2 * GRID_STEP>>
        backward(t, tm1, tm2) ==
            PSum(<< PScale(Int2R(3), t), PScale(Int2R(-4), tm1), tm2 >>)
    IN  IF species = "POCS"
        THEN PAdd(
               IF depth = 0
               THEN PSub(PMul(P("Bm2"), Pli),
                         PMul(PSum(<< PScale(RDiv(One, h), P("ws")), P("Bm1s"),
                                      PMul(P("B2p"), Psi) >>), Psi))
               ELSE PSum(<< PMul(P("Bm2"), Pli),
                            PScale(Int2R(-1),
                                   PMul(PAdd(P("Bm1s"), PMul(P("B2p"), Psi)), Psi)),
                            PScale(RNeg(step),
                                   PMul(P("ws"),
                                        IF depth \in {1, 2} THEN PSub(Psip1, Psim1)
                                        ELSE backward(Psi, Psim1, Psim2))) >>),
               IF params_known THEN <<>>
               ELSE PMul(P("P30"),
                         PSub(K(One), PScale(Int2R(GRID[depth + 1] - mld), P("Lp")))))
        ELSE IF species = "POCL"
        THEN IF depth = 0
             THEN PSub(PMul(P("B2p"), PMul(Psi, Psi)),
                       PMul(PSum(<< PScale(RDiv(One, h), P("wl")), P("Bm2"),
                                    P("Bm1l") >>), Pli))
             ELSE PSum(<< PMul(P("B2p"), PMul(Psi, Psi)),
                          PScale(Int2R(-1), PMul(PAdd(P("Bm2"), P("Bm1l")), Pli)),
                          PScale(RNeg(step),
                                 PMul(P("wl"),
                                      IF depth \in {1, 2} THEN PSub(Plip1, Plim1)
                                      ELSE backward(Pli, Plim1, Plim2))) >>)
        ELSE PSub(K(Pt_constraint(depth)), PAdd(Psi, Pli))

\* np.exp of a logarithm
Exp(v) == IF v = Zero THEN One ELSE IF Len(v) = 3 THEN <<v[1], v[2]>> ELSE NaN

\* extract_equation_variables (pyrite.py): the state element of a symbol
ElementOf(name, depth) ==
    IF Contains(name, "_")
    THEN Split(name)[1] \o "_" \o Str(depth + ParseInt(Split(name)[2]))
    ELSE IF InList(name, dv_param_names_log)
    THEN name \o "_" \o which_zone(depth)
    ELSE name

\* extract_equation_variables (pyrite.py): the loop over x_symbolic
ExtractAtLog(x_symbolic, x_indices, v, lognormal) ==
    [sym |-> x_symbolic,
     num |-> Tup([j \in 1..Len(x_symbolic) |->
                 IF lognormal THEN Exp(v[x_indices[j]]) ELSE v[x_indices[j]]]),
     ind |-> x_indices]

\* extract_equation_variables (pyrite.py)
extract_equation_variables_log(se, y, depth, v, lognormal) ==
    ExtractAtLog(FreeSymbols(y),
                 Tup([j \in 1..Len(FreeSymbols(y)) |->
                     Index(se, ElementOf(FreeSymbols(y)[j], depth))]),
                 v, lognormal)

\* dy of evaluate_model_equations: dy/d(ln(x)) = x*dy/dx when lognormal
DiffLog(y, x, lognormal) == IF lognormal THEN PMul(Diff(y, x), S(x)) ELSE Diff(y, x)

\* the row of F for the equation y at a depth
JacobianRowLog(se, y, depth, ev, v, lognormal, width) ==
    IF \E j \in 1..Len(ev.ind) : ev.ind[j] > width THEN IndexError
    ELSE Tup([c \in 1..width |->
             IF InList(c, ev.ind)
             THEN LambdifyAt(DiffLog(y, ev.sym[Index(ev.ind, c)], lognormal),
                             extract_equation_variables_log(
                                 se, DiffLog(y, ev.sym[Index(ev.ind, c)], lognormal),
                                 depth, v, lognormal))
             ELSE Zero])

\* the equation of an equation element (pyrite.py)
EquationOfLog(element, params_known) ==
    model_equation_log(Split(element)[1], ParseInt(Split(element)[2]), params_known)

\* f and F of the equation elements eq_elements
EvaluateLog(se, eq_elements, v, lognormal, params_known, width) ==
    [f |-> Tup([i \in 1..Len(eq_elements) |->
               LambdifyAt(EquationOfLog(eq_elements[i], params_known),
                          extract_equation_variables_log(
                              se, EquationOfLog(eq_elements[i], params_known),
                              ParseInt(Split(eq_elements[i])[2]), v, lognormal))]),
     F |-> RowsOrError(
               Tup([i \in 1..Len(eq_elements) |->
                   JacobianRowLog(
                       se, EquationOfLog(eq_elements[i], params_known),
                       ParseInt(Split(eq_elements[i])[2]),
                       extract_equation_variables_log(
                           se, EquationOfLog(eq_elements[i], params_known),
                           ParseInt(Split(eq_elements[i])[2]), v, lognormal),
                       v, lognormal, width)]))]

\* the value evaluate_model_equations returns, or the IndexError it raises
ReturnOrError(fF) == IF fF.F = IndexError THEN Raised ELSE fF

\* evaluate_model_equations (pyrite.py) with return_F=True
evaluate_model_equations_log(se, ee, v, lognormal, params_known) ==
    ReturnOrError(
        IF params_known
        THEN EvaluateLog(se, SubSeq(ee, 1, Len(TracerKeysLog)), v, lognormal, TRUE,
                         Len(TracerKeysLog))
        ELSE EvaluateLog(se, ee, v, lognormal, FALSE, Len(se)))

\* pyrite.py __init__ up to the loop: priors and equation elements, once
LogBuild ==
    /\ variant = "log"
    /\ pc = "build"
    /\ state_elements' = StateElementsLog(define_params_log)
    /\ equation_elements' = EquationElementsLog
    /\ xo' = PriorsLog(define_params_log)
    /\ pc' = "loop"
    /\ UNCHANGED << inputs, driver, calls, runs, model_runs, run, gi, ri, ati, xhat, exc, plan >>

\* run = PyriteModelRun(g); Cf; ATI entered: xk = xo_log
LogStartRun ==
    /\ variant = "log"
    /\ pc = "loop"
    /\ gi <= Len(gammas)
    /\ run' = NewRun(runs)
    /\ runs' = Store(runs, run', PyriteModelRunLog(gammas[gi]))
    /\ plan' \in LogPlans
    /\ ati' = [NoLocals EXCEPT !.xk = xo.xo_log, !.xkp1 = <<"ones">>]
    /\ pc' = "ati"
    /\ UNCHANGED << inputs, driver, calls, state_elements, equation_elements, xo, model_runs,
                    gi, ri, xhat, exc >>

\* one pass of the loop of find_solution (pyrite.py)
LogIterate ==
    /\ variant = "log"
    /\ pc = "ati"
    /\ LET k == ati.count + 1
           change == PlanChange(plan, k)
           converged == check_convergence_log(change)
       IN  IF PlanSingular(plan, k)
           THEN /\ pc' = "raised"
                /\ exc' = "LinAlgError"
                /\ UNCHANGED << runs, ati >>
           ELSE /\ runs' = [runs EXCEPT
                     ![run].cost_evolution = RecordCost(@, ati.count, <<"cost", k>>),
                     ![run].convergence_evolution = Append(@, change),
                     ![run].converged = converged]
                /\ ati' = [count |-> IF converged THEN ati.count ELSE k,
                           xk |-> IF converged THEN ati.xk ELSE <<"x", k>>,
                           xkp1 |-> <<"x", k>>, F |-> <<"F", k>>,
                           CoFT |-> <<"CoFT", k>>, FCoFTi |-> <<"FCoFTpCfi", k>>]
                /\ pc' = IF converged \/ ~InRangeLog(k) THEN "unpack" ELSE "ati"
                /\ UNCHANGED exc
    /\ UNCHANGED << inputs, driver, calls, state_elements, equation_elements, xo, model_runs,
                    run, gi, ri, xhat, plan >>

\* unlog_state_estimates and unpack_state_estimates (pyrite.py)
LogUnpack ==
    /\ variant = "log"
    /\ pc = "unpack"
    /\ runs' = [runs EXCEPT
          ![run].cvm = <<"cvm", ati.xkp1>>,
          ![run].tracer_results =
              Tup([s \in 1..Len(tracer_names) |->
                  << tracer_names[s],
                     [est |-> <<"xhat", ati.xkp1>>, err |-> <<"xhat_e", ati.xkp1>>] >>]),
          ![run].param_results =
              Tup([k \in 1..Len(define_params_log) |->
                  << define_params_log[k].name,
                     [est |-> <<"xhat", ati.xkp1>>, err |-> <<"xhat_e", ati.xkp1>>] >>])]
    /\ xhat' = <<"xhat", ati.xkp1>>
    /\ pc' = "derive"
    /\ UNCHANGED << inputs, driver, calls, state_elements, equation_elements, xo, model_runs,
                    run, gi, ri, ati, exc, plan >>

\* calculate_total_POC, calculate_residuals and the derived quantities
LogDerive ==
    /\ variant = "log"
    /\ pc = "derive"
    /\ runs' = [runs EXCEPT ![run].x_resids = <<"x_resids", xhat>>,
                            ![run].f_resids = <<"f_resids", xhat>>]
    /\ pc' = "append"
    /\ UNCHANGED << inputs, driver, calls, state_elements, equation_elements, xo, model_runs,
                    run, gi, ri, ati, xhat, exc, plan >>

\* self.model_runs.append(run) (pyrite.py)
LogAppendRun ==
    /\ variant = "log"
    /\ pc = "append"
    /\ model_runs' = Append(model_runs, run)
    /\ gi' = gi + 1
    /\ pc' = "loop"
    /\ UNCHANGED << inputs, driver, calls, state_elements, equation_elements, xo, runs, run,
                    ri, ati, xhat, exc, plan >>

\* self.pickle_model() (pyrite.py)
LogPickle ==
    /\ variant = "log"
    /\ pc = "loop"
    /\ gi > Len(gammas)
    /\ pc' = "done"
    /\ UNCHANGED << inputs, driver, calls, state_elements, equation_elements, xo, runs,
                    model_runs, run, gi, ri, ati, xhat, exc, plan >>

Next ==
    \/ StartRun
    \/ DefineElements
    \/ DefinePriors
    \/ EnterATI
    \/ Iterate
    \/ Unpack
    \/ EvalSymbolicFunc
    \/ Derive
    \/ AppendRun
    \/ Pickle
    \/ LogBuild
    \/ LogStartRun
    \/ LogIterate
    \/ LogUnpack
    \/ LogDerive
    \/ LogAppendRun
    \/ LogPickle

Spec == Init /\ [][Next]_vars

(***************************************************************************)
(* Direct calls of the evaluator on a built model: the program's own       *)
(* equations over all zones (old_code.py) or grid points (pyrite.py), with *)
(* and without params_known, at a state vector the caller chooses.  The    *)
(* same call is made twice.                                                *)
(***************************************************************************)
\* the state vectors a caller passes: the value of state element i
StateValues == {"ones", "halves", "mixed", "steps"}

StateValue(kind, i) ==
    IF kind = "ones" THEN One
    ELSE IF kind = "halves" THEN <<1, 2>>
    ELSE IF kind = "mixed" THEN Norm(1 + (i % 3), 2)
    ELSE Norm(1, 1 + (i % 4))

\* the vector v of a call; in the log domain when lognormal is set
StateVector(kind, n, lognormal) ==
    Tup([i \in 1..n |->
        IF lognormal THEN Log(StateValue(kind, i)) ELSE StateValue(kind, i)])

\* evaluate_model_equations(v, return_F=True, ...) of the variant
evaluate_model_equations(c) ==
    IF variant = "linear"
    THEN LET F == EvaluateJacobian(state_elements, equation_elements, eqsys, c.v)
         IN  IF F = IndexError THEN Raised
             ELSE [f |-> EvaluateF(state_elements, equation_elements, eqsys, c.v),
                   F |-> F]
    ELSE evaluate_model_equations_log(state_elements, equation_elements, c.v,
                                      c.lognormal, eqsys = "twin")

EvalInit ==
    /\ NoDriver
    /\ variant \in {"linear", "log"}
    /\ order \in Orders
    /\ gammas = <<>>
    /\ rel_errs = <<>>
    /\ data = "offset"
    /\ eqsys \in {"model", "twin"}
    /\ state_elements = IF variant = "linear" THEN AllStateElements
                        ELSE AllStateElementsLog
    /\ equation_elements = IF variant = "linear" THEN AllEquationElements
                           ELSE EquationElementsLog
    /\ xo = None
    /\ runs = <<>>
    /\ model_runs = <<>>
    /\ run = 0
    /\ gi = 1
    /\ ri = 1
    /\ pc = "built"
    /\ ati = NoLocals
    /\ xhat = None
    /\ exc = ""
    /\ plan = NoPlan
    /\ call = NoCall
    /\ ret = <<>>

\* a caller evaluates the equations and the Jacobian at a vector v
Evaluate ==
    /\ pc = "built"
    /\ \E kind \in StateValues :
       \E lognormal \in IF variant = "linear" THEN {FALSE} ELSE BOOLEAN :
       \E c \in {[fn |-> "evaluate_model_equations", lognormal |-> lognormal,
                  v |-> StateVector(kind, Len(state_elements), lognormal)]} :
          /\ call' = c
          /\ ret' = <<evaluate_model_equations(c)>>
    /\ pc' = "evaluated"
    /\ UNCHANGED << inputs, driver, state_elements, equation_elements, xo, runs,
                    model_runs, run, gi, ri, ati, xhat, exc, plan >>

\* the caller repeats the call with the same arguments
EvaluateAgain ==
    /\ pc = "evaluated"
    /\ call.fn = "evaluate_model_equations"
    /\ Len(ret) = 1
    /\ ret' = Append(ret, evaluate_model_equations(call))
    /\ UNCHANGED << inputs, driver, state_elements, equation_elements, xo, runs,
                    model_runs, run, gi, ri, pc, ati, xhat, exc, plan, call >>

\* faulty variant: the zone above is used in every zone, the first included
zone_inventory_unguarded(t, z) ==
    PScale(Int2R(GridZoneThick(z)),
           PScale(<<1, 2>>, PAdd(S(t \o "_" \o z), S(t \o "_" \o previous_zone(z)))))

\* calculate_inventories: z_inventory = t_sym*h of tracer t in zone z
zone_inventory(t, z) ==
    IF z = "A"
    THEN PScale(Int2R(GridZoneThick(z)), S(t \o "_" \o z))
    ELSE PScale(Int2R(GridZoneThick(z)),
                PScale(<<1, 2>>, PAdd(S(t \o "_" \o z), S(t \o "_" \o previous_zone(z)))))

\* calculate_inventories: inventory_sym, for every tracer the inventory of
\* every zone and of the two super zones, zones[:3] and zones[3:].  (The
\* numbers of run.inventories are eval_symbolic_func of these expressions.)
calculate_inventories ==
    Tup([k \in 1..Len(tracer_names) |->
        [zones |-> Tup([i \in 1..Len(ZoneLabels) |->
                       zone_inventory(tracer_names[k], ZoneLabels[i])]),
         EZ |-> PSum(Tup([i \in 1..3 |->
                       zone_inventory(tracer_names[k], ZoneLabels[i])])),
         UMZ |-> PSum(Tup([i \in 1..(Len(ZoneLabels) - 3) |->
                       zone_inventory(tracer_names[k], ZoneLabels[i + 3])]))]])

\* define_fluxes: name, tracer and param of the fluxes that have wrt, which
\* are those calculate_fluxes returns expressions of
FluxesWrt ==
    << [name |-> "sinkdiv_S", tracer |-> "POCS", param |-> "ws"],
       [name |-> "sinkdiv_L", tracer |-> "POCL", param |-> "wl"],
       [name |-> "remin_S", tracer |-> "POCS", param |-> "Bm1s"],
       [name |-> "remin_L", tracer |-> "POCL", param |-> "Bm1l"],
       [name |-> "aggregation", tracer |-> "POCS", param |-> "B2p"],
       [name |-> "disaggregation", tracer |-> "POCL", param |-> "Bm2"],
       [name |-> "production", tracer |-> "POCS", param |-> "None"],
       [name |-> "dvm", tracer |-> "POCS", param |-> "B3"] >>

\* calculate_fluxes: y of a flux in zone z
zone_flux(flux, z) ==
    LET f == flux.name
        zim1 == GridZoneDepths(z)[1]
        zi == GridZoneDepths(z)[2]
        h == Int2R(GridZoneThick(z))
        half == <<1, 2>>
        exp(c) == PSub(K(One), PScale(Int2R(c), S("Lp")))
        cos(c) == PSub(K(One), PScale(Int2R(c), S("zm")))
        B3Ps_av ==
            PMul(PScale(<<1, zg>>, S("B3")),
                 PSum(<< PScale(Int2R(GridZoneThick("A")), S("POCS_A")),
                         PScale(RMul(half, Int2R(GridZoneThick("B"))),
                                PAdd(S("POCS_A"), S("POCS_B"))),
                         PScale(RMul(half, Int2R(GridZoneThick("C"))),
                                PAdd(S("POCS_B"), S("POCS_C"))) >>))
    IN  IF Contains(f, "div")
        THEN IF z = "A"
             THEN PMul(S(flux.param \o "_" \o z), S(flux.tracer \o "_" \o z))
             ELSE PSub(PMul(S(flux.param \o "_" \o z), S(flux.tracer \o "_" \o z)),
                       PMul(S(flux.param \o "_" \o previous_zone(z)),
                            S(flux.tracer \o "_" \o previous_zone(z))))
        ELSE IF f = "production"
        THEN IF z = "A"
             THEN PScale(Int2R(mld), S("P30"))
             ELSE PMul(PMul(S("Lp"), S("P30")), PSub(exp(zim1 - mld), exp(zi - mld)))
        ELSE IF f = "dvm"
        THEN IF z \in {"A", "B", "C"}
             THEN IF z = "A"
                  THEN PScale(h, PMul(S("B3"), S("POCS_" \o z)))
                  ELSE PScale(h, PMul(S("B3"),
                           PScale(half, PAdd(S("POCS_" \o z),
                                             S("POCS_" \o previous_zone(z))))))
             ELSE PMul(PMul(B3Ps_av, PScale(Norm(zg, 2), S("a"))),
                       PSub(cos(zim1 - zg), cos(zi - zg)))
        ELSE LET pi == S(flux.param \o "_" \o z)
                 ti == S(flux.tracer \o "_" \o z)
                 t_av == IF z = "A" THEN ti
                         ELSE PScale(half, PAdd(ti, S(flux.tracer \o "_" \o previous_zone(z))))
             IN  IF f = "aggregation"
                 THEN PScale(h, PMul(pi, PMul(t_av, t_av)))
                 ELSE PScale(h, PMul(pi, t_av))

\* calculate_fluxes(run=None): fluxes_sym, for every flux with wrt the list
\* of its expressions y, one per zone
calculate_fluxes ==
    Tup([k \in 1..Len(FluxesWrt) |->
        Tup([i \in 1..Len(ZoneLabels) |-> zone_flux(FluxesWrt[k], ZoneLabels[i])])])

\* a caller has the inventories built
CalculateInventories ==
    /\ pc = "built"
    /\ variant = "linear"
    /\ call' = [fn |-> "calculate_inventories"]
    /\ ret' = <<calculate_inventories>>
    /\ pc' = "evaluated"
    /\ UNCHANGED << inputs, driver, state_elements, equation_elements, xo, runs,
                    model_runs, run, gi, ri, ati, xhat, exc, plan >>

\* a caller has the fluxes built
CalculateFluxes ==
    /\ pc = "built"
    /\ variant = "linear"
    /\ call' = [fn |-> "calculate_fluxes"]
    /\ ret' = <<calculate_fluxes>>
    /\ pc' = "evaluated"
    /\ UNCHANGED << inputs, driver, state_elements, equation_elements, xo, runs,
                    model_runs, run, gi, ri, ati, xhat, exc, plan >>

EvalNext ==
    \/ Evaluate
    \/ EvaluateAgain
    \/ CalculateInventories
    \/ CalculateFluxes

EvalSpec == EvalInit /\ [][EvalNext]_vars

(***************************************************************************)
(* The final iteration of find_solution and the posterior covariance that  *)
(* unpack_state_estimates (old_code.py) or unlog_state_estimates           *)
(* (pyrite.py) computes from it, on a system of three state elements and   *)
(* two equations: the prior covariance, the Jacobian of the iteration and  *)
(* the model-error covariance are drawn from small sets.                   *)
(***************************************************************************)
RMatrix(rows) ==
    Tup([i \in 1..Len(rows) |-> Tup([j \in 1..Len(rows[i]) |-> Int2R(rows[i][j])])])

\* prior covariances: diagonal (old_code.py), and with the blocks of two
\* layers of a tracer (pyrite.py)
PriorCovariances ==
    { RMatrix(<< <<1, 0, 0>>, <<0, 1, 0>>, <<0, 0, 4>> >>),
      RMatrix(<< <<2, 0, 0>>, <<0, 1, 0>>, <<0, 0, 1>> >>),
      RMatrix(<< <<2, 1, 0>>, <<1, 2, 0>>, <<0, 0, 1>> >>),
      RMatrix(<< <<3, 1, 0>>, <<1, 1, 0>>, <<0, 0, 2>> >>) }

\* Jacobians of a final iteration; the last has linearly dependent rows
FinalJacobians ==
    { RMatrix(<< <<1, 0, 1>>, <<0, 1, 0>> >>),
      RMatrix(<< <<1, 1, 0>>, <<0, 1, 1>> >>),
      RMatrix(<< <<2, 0, 0>>, <<0, 0, 1>> >>),
      RMatrix(<< <<1, 0, 0>>, <<2, 0, 0>> >>) }

\* define_model_error_matrix: a diagonal matrix of model-error variances
define_model_error_matrix(g) == DiagMatrix(<<g, g>>)

ModelErrors == {define_model_error_matrix(g) : g \in {<<1, 2>>, <<1, 1>>, <<2, 1>>}}

\* calculate_xkp1 (pyrite.py)
calculate_xkp1_log(xo_log, Co_log, Cf, xk, f, F) ==
    LET CoFT == MatMul(Co_log, Transpose(F))
        FCoFT == MatMul(F, CoFT)
        FCoFTpCfi == Inv(MatAdd(FCoFT, Cf))
    IN  IF FCoFTpCfi = LinAlgError THEN LinAlgError
        ELSE << VAdd(xo_log, MatVec(MatMul(CoFT, FCoFTpCfi),
                                    VSub(MatVec(F, VSub(xk, xo_log)), f))),
                CoFT, FCoFTpCfi >>

\* np.identity(n)
Identity(n) == DiagMatrix(Repeat(One, n))

\* unlog_state_estimates: Ckp1, the matrix that is back-transformed
PosteriorCovarianceLog(Co_log, F, CoFT, FCoFTpCfi) ==
    MatMul(MatMul(MatSub(Identity(Len(Co_log)), MatMul(MatMul(CoFT, FCoFTpCfi), F)),
                  Co_log),
           MatSub(Identity(Len(Co_log)),
                  MatMul(MatMul(MatMul(Transpose(F), FCoFTpCfi), F), Co_log)))

CovInit ==
    /\ NoDriver
    /\ variant \in {"linear", "log"}
    /\ order \in Orders
    /\ gammas = <<>>
    /\ rel_errs = <<>>
    /\ data = "offset"
    /\ eqsys = "balance"
    /\ state_elements = <<"POCS_A", "POCS_B", "P30">>
    /\ equation_elements = <<"POCS_A", "POCS_B">>
    /\ xo = Repeat(One, 3)
    /\ runs = <<>>
    /\ model_runs = <<>>
    /\ run = 0
    /\ gi = 1
    /\ ri = 1
    /\ pc = "ati"
    /\ ati = NoLocals
    /\ xhat = None
    /\ exc = ""
    /\ plan = NoPlan
    /\ call = NoCall
    /\ ret = <<>>

\* the last pass of the loop of find_solution: calculate_xkp1 with the
\* Jacobian F of the pass
FinalIteration ==
    /\ pc = "ati"
    /\ \E Co \in PriorCovariances : \E F \in FinalJacobians :
       \E Cf \in IF variant = "linear" THEN {None} ELSE ModelErrors :
       \E f \in {Repeat(One, Len(F))} :
       \E step \in {IF variant = "linear" THEN calculate_xkp1(xo, Co, xo, f, F)
                    ELSE calculate_xkp1_log(xo, Co, Cf, xo, f, F)} :
           /\ call' = [fn |-> "ATI", Co |-> Co, Cf |-> Cf]
           /\ IF step = LinAlgError
              THEN /\ pc' = "raised"
                   /\ exc' = "LinAlgError"
                   /\ UNCHANGED ati
              ELSE /\ ati' = [count |-> 1, xk |-> xo, xkp1 |-> step[1], F |-> F,
                              CoFT |-> step[2], FCoFTi |-> step[3]]
                   /\ pc' = "unpack"
                   /\ UNCHANGED exc
    /\ UNCHANGED << inputs, driver, state_elements, equation_elements, xo, runs,
                    model_runs, run, gi, ri, xhat, plan, ret >>

\* unpack_state_estimates / unlog_state_estimates: Ckp1
PosteriorCovarianceOf ==
    /\ pc = "unpack"
    /\ call.fn = "ATI"
    /\ \E sol \in {find_solution_return(ati)} :
          /\ ret' = << IF variant = "linear"
                       THEN PosteriorCovariance(call.Co, sol.F, sol.CoFT, sol.FCoFTi)
                       ELSE PosteriorCovarianceLog(call.Co, sol.F, sol.CoFT,
                                                   sol.FCoFTi) >>
          /\ xhat' = sol.xkp1
    /\ pc' = "derive"
    /\ UNCHANGED << inputs, driver, state_elements, equation_elements, xo, runs,
                    model_runs, run, gi, ri, ati, exc, plan, call >>

CovNext ==
    \/ FinalIteration
    \/ PosteriorCovarianceOf

CovSpec == CovInit /\ [][CovNext]_vars

(***************************************************************************)
(* The ensemble driver scripts/geotraces/run.py.  __main__ pairs every     *)
(* station with every parameter set and hands the pairs to a pool of       *)
(* worker processes created with maxtasksperchild=1: a process runs        *)
(* invert_station on one pair and exits, and the pool starts a new process *)
(* for the next pair.  The solver and the data modules invert_station      *)
(* calls are not part of the sources: what they do to a task is one of the *)
(* outcomes below, any of which any task may have.  The iterator           *)
(* imap_unordered returns is never read, so an exception a task raised is  *)
(* kept in its result and is not raised in __main__.                       *)
(***************************************************************************)
\* processes of the pool (run.py has 64)
PoolSize == 2

\* n_param_sets (run.py has 100000)
NParamSets == 2

Stations == <<"GT1", "GT2">>

\* station_list and set_list zipped: for every parameter set, every station
Inputs ==
    Flatten(Tup([s \in 1..NParamSets |->
        Tup([k \in 1..Len(Stations) |-> <<Stations[k], s - 1>>])]))

\* what invert_station does on a task
\*   "success"       success_check holds: the estimates are written to a file
\*   "unsuccessful"  success_check fails: returns without a file
\*   "singular"      LinAlgError "Singular matrix": printed, returns
\*   "warning"       RuntimeWarning raised: printed, returns
\*   "linalg"        another LinAlgError: raised again
\*   "exception"     any other exception: leaves invert_station
Outcomes == {"success", "unsuccessful", "singular", "warning", "linalg", "exception"}

Raises(outcome) == outcome \in {"linalg", "exception"}

\* f'{output_path}/{station}_{mc_params["id"]}.h5'
FileName(task) == task[1] \o "_" \o Str(task[2]) \o ".h5"

\* what ati.find_solution and ati.success_check do in a task: the exception
\* find_solution raises with its message, or "" and what success_check returns
SolveResults ==
    [raises : {""}, msg : {""}, success : BOOLEAN]
        \cup [raises : {"LinAlgError"},
              msg : {"Singular matrix", "SVD did not converge"},
              success : {FALSE}]
        \cup [raises : {"RuntimeWarning"},
              msg : {"overflow encountered in exp"},
              success : {FALSE}]
        \cup [raises : {"KeyError"}, msg : {"'POCS'"}, success : {FALSE}]

\* f'Singular matrix: {int(mc_params["id"])}, {station}' and the like
Line(what, args) == what \o ": " \o Str(args[2]) \o ", " \o args[1]

\* what a call of invert_station leaves: how it ended, what it printed and
\* the paths it opened for writing
Leaves(outcome, lines, paths) ==
    [outcome |-> outcome, printed |-> lines, writes |-> paths]

\* faulty variant: every LinAlgError is printed and dropped
invert_station_drops(args, solve) ==
    IF solve.raises = "LinAlgError"
    THEN Leaves("singular", {Line("Singular matrix", args)}, {})
    ELSE IF solve.raises = "RuntimeWarning"
    THEN Leaves("warning", {Line("RuntimeWarning", args)}, {})
    ELSE IF solve.raises # ""
    THEN Leaves("exception", {}, {})
    ELSE IF solve.success
    THEN Leaves("success", {}, {FileName(args)})
    ELSE Leaves("unsuccessful", {}, {})

\* faulty variant: the file is named after the station alone
invert_station_by_station(args, solve) ==
    IF solve.raises = "LinAlgError"
    THEN IF Contains(solve.msg, "Singular matrix")
         THEN Leaves("singular", {Line("Singular matrix", args)}, {})
         ELSE Leaves("linalg", {}, {})
    ELSE IF solve.raises = "RuntimeWarning"
    THEN Leaves("warning", {Line("RuntimeWarning", args)}, {})
    ELSE IF solve.raises # ""
    THEN Leaves("exception", {}, {})
    ELSE IF solve.success
    THEN Leaves("success", {}, {args[1] \o ".h5"})
    ELSE Leaves("unsuccessful", {}, {})

\* invert_station(args), with what its one call of find_solution does
invert_station(args, solve) ==
    IF solve.raises = "LinAlgError"
    THEN IF Contains(solve.msg, "Singular matrix")
         THEN Leaves("singular", {Line("Singular matrix", args)}, {})
         ELSE Leaves("linalg", {}, {})
    ELSE IF solve.raises = "RuntimeWarning"
    THEN Leaves("warning", {Line("RuntimeWarning", args)}, {})
    ELSE IF solve.raises # ""
    THEN Leaves("exception", {}, {})
    ELSE IF solve.success
    THEN Leaves("success", {}, {FileName(args)})
    ELSE Leaves("unsuccessful", {}, {})

\* faulty variant: an exception of a task is raised in __main__, which
\* leaves the with block and terminates the pool
MainAfterTaskRaised(pc_, outcome) ==
    IF Raises(outcome) THEN "terminated" ELSE pc_

\* __main__ after a task has ended with an outcome: the result of
\* p.imap_unordered(invert_station, inputs) is dropped, __main__ goes on
MainAfterTask(pc_, outcome) == pc_

\* the variables of the inversion model, which the driver does not use
NoModel ==
    /\ variant = "linear"
    /\ order = "asc"
    /\ gammas = <<>>
    /\ rel_errs = <<>>
    /\ data = "offset"
    /\ eqsys = "balance"
    /\ state_elements = None
    /\ equation_elements = None
    /\ xo = None
    /\ runs = <<>>
    /\ model_runs = <<>>
    /\ run = 0
    /\ gi = 1
    /\ ri = 1
    /\ pc = "none"
    /\ ati = NoLocals
    /\ xhat = None
    /\ exc = ""
    /\ plan = NoPlan
    /\ call = NoCall
    /\ ret = <<>>

model == << inputs, calls, state_elements, equation_elements, xo, runs, model_runs,
            run, gi, ri, pc, ati, xhat, exc, plan >>

\* __main__ up to the with statement: os.makedirs(output_path), inputs
PoolInit ==
    /\ NoModel
    /\ tasks = Inputs
    /\ next_task = 1
    /\ workers = Repeat(0, PoolSize)
    /\ status = Repeat("queued", Len(Inputs))
    /\ output = {}
    /\ main_pc = "pool"
    /\ solves = Repeat(<<>>, Len(Inputs))
    /\ printed = {}
    /\ writes = Repeat({}, Len(Inputs))

\* p.imap_unordered(invert_station, inputs)
Submit ==
    /\ main_pc = "pool"
    /\ main_pc' = "submitted"
    /\ UNCHANGED << model, tasks, next_task, workers, status, output,
                    solves, printed, writes >>

\* p.close()
Close ==
    /\ main_pc = "submitted"
    /\ main_pc' = "closed"
    /\ UNCHANGED << model, tasks, next_task, workers, status, output,
                    solves, printed, writes >>

\* p.join(): returns when every task has been handed out and every worker
\* process has exited
Join ==
    /\ main_pc = "closed"
    /\ next_task > Len(tasks)
    /\ \A w \in 1..PoolSize : workers[w] = 0
    /\ main_pc' = "joined"
    /\ UNCHANGED << model, tasks, next_task, workers, status, output,
                    solves, printed, writes >>

\* a new worker process takes the next task
TakeTask(w) ==
    /\ main_pc \in {"submitted", "closed"}
    /\ workers[w] = 0
    /\ next_task <= Len(tasks)
    /\ workers' = [workers EXCEPT ![w] = next_task]
    /\ status' = [status EXCEPT ![next_task] = "running"]
    /\ next_task' = next_task + 1
    /\ UNCHANGED << model, tasks, output, main_pc, solves, printed, writes >>

\* invert_station(args) in worker w, and the exit of the process after its
\* one task
InvertStation(w) ==
    /\ main_pc \in {"submitted", "closed"}
    /\ workers[w] # 0
    /\ \E solve \in SolveResults :
       \E left \in {invert_station(tasks[workers[w]], solve)} :
          /\ solves' = [solves EXCEPT ![workers[w]] = Append(@, solve)]
          /\ status' = [status EXCEPT ![workers[w]] = left.outcome]
          /\ printed' = printed \cup left.printed
          /\ writes' = [writes EXCEPT ![workers[w]] = @ \cup left.writes]
          /\ output' = output \cup left.writes
          /\ main_pc' = MainAfterTask(main_pc, left.outcome)
    /\ workers' = [workers EXCEPT ![w] = 0]
    /\ UNCHANGED << model, tasks, next_task >>

PoolNext ==
    \/ Submit
    \/ Close
    \/ Join
    \/ \E w \in 1..PoolSize : TakeTask(w)
    \/ \E w \in 1..PoolSize : InvertStation(w)

PoolSpec == PoolInit /\ [][PoolNext]_vars

(***************************************************************************)
(* Properties.                                                             *)
(***************************************************************************)
Linear == variant = "linear"

\* the iteration limit and the tolerance of the variant
MaxIterations == IF Linear THEN max_iterations ELSE max_iterations_log

Tolerance == IF Linear THEN max_change_limit ELSE max_change_limit_log

\* the iterations a run has completed: each appends one cost
Iterations(r) == Len(runs[r].cost_evolution)

\* in no executed iteration of run r was the maximum change below the tolerance
ToleranceNeverMet(r) ==
    \A k \in 1..Len(runs[r].convergence_evolution) :
        ~RLess(runs[r].convergence_evolution[k], Tolerance)

\* C1: find_solution executes at most its maximum number of iterations (100
\* linear, 25 log) and then stops: no run ever has more iterations than the
\* maximum, the loop is only ever about to run a pass below the maximum, and
\* a run in none of whose iterations the maximum relative change was below
\* the tolerance has converged = false.
C1_IterationBound ==
    /\ \A r \in 1..Len(runs) : Iterations(r) <= MaxIterations
    /\ pc = "ati" => Iterations(run) < MaxIterations
    /\ \A r \in 1..Len(runs) : ToleranceNeverMet(r) => ~runs[r].converged

C1_Witness ==
    /\ Linear
    /\ pc = "unpack"
    /\ Iterations(run) = max_iterations
    /\ ~runs[run].converged

\* every relative change of the step from xk to xkp1 is below the tolerance
AllBelowTolerance(xk, xkp1) ==
    \A i \in 1..Len(xk) :
        RLess(RAbs(RDiv(RSub(xkp1[i], xk[i]), xk[i])), max_change_limit)

\* the step appends an entry to the convergence trace of the current run
TestApplied ==
    Len(runs'[run].convergence_evolution) = Len(runs[run].convergence_evolution) + 1

\* a pass of the loop that applies the test sets converged to true exactly
\* when the maximum change is below the tolerance
VerdictExact ==
    TestApplied =>
        /\ runs'[run].converged =
              RLess(runs'[run].convergence_evolution[Len(runs'[run].convergence_evolution)],
                    Tolerance)
        /\ Linear => runs'[run].converged = AllBelowTolerance(ati.xk, ati'.xkp1)

\* a pass that does not apply the test leaves the trace and the flag alone
UntestedUnchanged ==
    ~TestApplied =>
        /\ runs'[run].convergence_evolution = runs[run].convergence_evolution
        /\ runs'[run].converged = runs[run].converged

\* the loop stops in the pass that sets converged: the loop is left, and the
\* traces of a converged run never change again
StopsWhenConverged ==
    /\ pc' = "ati" => ~runs'[run'].converged
    /\ \A r \in 1..Len(runs) :
          runs[r].converged =>
              /\ runs'[r].cost_evolution = runs[r].cost_evolution
              /\ runs'[r].convergence_evolution = runs[r].convergence_evolution
              /\ runs'[r].converged

\* a pass of the loop that raises nothing
LoopPass == pc = "ati" /\ exc' = ""

\* C2 (amended): the linear variant does not apply the convergence test in
\* the first iteration and applies it in every later one; the log variant
\* applies it in every iteration, the first included.  Where it is applied,
\* converged is set to true exactly when max_i |(x(k+1)_i - xk_i)/xk_i| is
\* below the tolerance, and the loop stops in the iteration in which that
\* happens: no further pass, update or trace entry follows.
C2_ConvergenceTest ==
    [][ /\ LoopPass =>
            /\ TestApplied = (~Linear \/ Iterations(run) > 0)
            /\ VerdictExact
            /\ UntestedUnchanged
        /\ StopsWhenConverged ]_vars

C2_Witness ==
    /\ Linear
    /\ pc = "unpack"
    /\ runs[run].converged
    /\ Iterations(run) = 2
    /\ Len(runs[run].convergence_evolution) = 1

\* C2 as stated: the convergence test is not applied in the first iteration
\* of the loop (in either variant); in every later iteration converged is
\* set exactly when the maximum change is below the tolerance, and the loop
\* stops in that iteration.
C2_AsStated ==
    [][ /\ LoopPass =>
            /\ TestApplied = (Iterations(run) > 0)
            /\ VerdictExact
            /\ UntestedUnchanged
        /\ StopsWhenConverged ]_vars

\* a Jacobian that makes F Co F^T singular whatever Co is: a row of zeros,
\* or two equal rows (duplicate equations)
SingularJacobian(F) ==
    \/ \E i \in 1..Len(F) : \A j \in 1..Len(F[i]) : F[i][j] = Zero
    \/ \E i, k \in 1..Len(F) : i < k /\ F[i] = F[k]

\* the inversion of this pass of the loop is singular
SingularPass ==
    /\ pc = "ati"
    /\ IF Linear
       THEN SingularJacobian(
                EvaluateJacobian(state_elements, equation_elements, eqsys, ati.xk))
       ELSE PlanSingular(plan, ati.count + 1)

\* C3: when the inversion of F Co F^T (+Cf) is singular in an iteration, ATI
\* raises to its caller and does not return: the pass ends in the raised
\* exception, and at the raise the run's tracer_results, param_results and
\* cvm still have their initial empty values, the run is not in model_runs,
\* and nothing runs after the raise.
C3_SingularRaises ==
    [][ /\ SingularPass => exc' = "LinAlgError"
        /\ exc' = "LinAlgError" =>
              /\ pc' = "raised"
              /\ runs'[run'].tracer_results = EmptyDict
              /\ runs'[run'].param_results = EmptyDict
              /\ runs'[run'].cvm = None
              /\ ~InList(run', model_runs')
              /\ model_runs' = model_runs
              /\ xhat' = xhat
        /\ pc # "raised" ]_vars

C3_Witness ==
    /\ Linear
    /\ exc = "LinAlgError"
    /\ pc = "raised"
    /\ eqsys = "newton"
    /\ Iterations(run) = 1

\* the estimate ATI returned in the current pass of the constructor
Returned == IF Linear THEN ati.xkp1 ELSE <<"xhat", ati.xkp1>>

\* the results of the run are those of the iterate x
FilledFrom(r, x) ==
    IF Linear
    THEN /\ \A s \in 1..Len(tracer_names) :
               Lookup(runs[r].tracer_results, tracer_names[s]).est =
                   slice_by_tracer(state_elements, x, tracer_names[s])
         /\ \A k \in 1..Len(runs[r].params) :
               LET p == runs[r].params[k]
                   res == Lookup(runs[r].param_results, p.name)
               IN  IF p.dv
                   THEN \A z \in 1..Len(zone_names) :
                           Lookup(res, zone_names[z]).est =
                               x[Index(state_elements, p.name \o "_" \o zone_names[z])]
                   ELSE res.est = x[Index(state_elements, p.name)]
         /\ Len(runs[r].cvm) = Len(x)
    ELSE /\ \A s \in 1..Len(tracer_names) :
               Lookup(runs[r].tracer_results, tracer_names[s]).est = <<"xhat", x>>
         /\ \A k \in 1..Len(define_params_log) :
               Lookup(runs[r].param_results, define_params_log[k].name).est = <<"xhat", x>>
         /\ runs[r].cvm = <<"cvm", x>>

\* C4: when the iteration limit is reached without convergence, ATI raises
\* nothing and returns the iterate x(k+1) of the last iteration; the run's
\* tracer results, parameter results and posterior covariance are filled
\* from it, and converged is false.
C4_BestEffortEstimate ==
    (pc \in {"derive", "append"} /\ ~runs[run].converged) =>
        /\ exc = ""
        /\ Iterations(run) = MaxIterations
        /\ ati.count = MaxIterations
        /\ xhat = Returned
        /\ ~Linear => ati.xkp1 = <<"x", max_iterations_log>>
        /\ FilledFrom(run, ati.xkp1)

C4_Witness ==
    /\ Linear
    /\ data = "balanced"
    /\ pc = "derive"
    /\ ~runs[run].converged
    /\ Iterations(run) = max_iterations

\* derived quantities of run r have been computed
DerivedComputed(r) == runs[r].x_resids # None

\* C5 as stated: the caller of the solver checks converged before it uses
\* the estimate: derived quantities are computed for a run, and a run is
\* kept in model_runs, only when its converged flag is true.
C5_CallersCheckConverged ==
    /\ \A r \in 1..Len(runs) : DerivedComputed(r) => runs[r].converged
    /\ \A i \in 1..Len(model_runs) : runs[model_runs[i]].converged

\* C6: after construction completes without error, model_runs holds exactly
\* one run per (gamma, rel_err) pair of the two input lists, in gamma-major
\* order, each a distinct run that stores the gamma and rel_err of its pair.
C6_OneRunPerPair ==
    (Linear /\ pc = "done") =>
        /\ Len(model_runs) = Len(gammas) * Len(rel_errs)
        /\ \A g \in 1..Len(gammas) : \A r \in 1..Len(rel_errs) :
              LET m == runs[model_runs[(g - 1) * Len(rel_errs) + r]]
              IN  m.gamma = gammas[g] /\ m.rel_err = rel_errs[r]
        /\ \A i, j \in 1..Len(model_runs) : i # j => model_runs[i] # model_runs[j]

C6_Witness ==
    /\ Linear
    /\ pc = "done"
    /\ Len(gammas) >= 2
    /\ Len(rel_errs) >= 2
    /\ Len(model_runs) = Len(gammas) * Len(rel_errs)

\* C7: solving a configuration never modifies a run already in model_runs:
\* every step leaves the appended runs and their order as they were, while
\* state_elements, equation_elements and xo are rebuilt for every run.
C7_CompletedRunsUntouched ==
    [][ /\ Len(model_runs') >= Len(model_runs)
        /\ \A i \in 1..Len(model_runs) :
              /\ model_runs'[i] = model_runs[i]
              /\ runs'[model_runs[i]] = runs[model_runs[i]] ]_vars

C7_Witness ==
    /\ Linear
    /\ Len(model_runs) >= 1
    /\ ~InList(run, model_runs)
    /\ pc = "derive"
    /\ runs[run].cvm # runs[model_runs[1]].cvm

\* the parameters and zone labels behind the current state elements
CurrentParams == IF Linear THEN runs[run].params ELSE define_params_log

CurrentZones == IF Linear THEN zone_names ELSE zone_names_log

\* the keys of the state-element list that belong to the entity name
KeysOf(name) == {i \in 1..Len(state_elements) : Split(state_elements[i])[1] = name}

\* C8: for every parameter the state-element list holds exactly one key
\* '<name>_<zone>' per zone, and no other key of that parameter, when the
\* parameter is depth-varying, and exactly one key '<name>' when it is not;
\* all keys of the list are pairwise distinct.
C8_OneKeyPerZone ==
    state_elements # None =>
        /\ \A k \in 1..Len(CurrentParams) :
              LET p == CurrentParams[k]
              IN  IF p.dv
                  THEN /\ \A z \in 1..Len(CurrentZones) :
                             Count(p.name \o "_" \o CurrentZones[z], state_elements) = 1
                       /\ Cardinality(KeysOf(p.name)) = Len(CurrentZones)
                  ELSE /\ Count(p.name, state_elements) = 1
                       /\ Cardinality(KeysOf(p.name)) = 1
        /\ \A i, j \in 1..Len(state_elements) :
              i # j => state_elements[i] # state_elements[j]

C8_Witness ==
    /\ Linear
    /\ pc = "priors"
    /\ Len(state_elements) = 2 * nte + Len(zone_names) + 1

\* the prior value and variance of the entity a state-element key names
EntityPrior(key) ==
    LET parts == Split(key)
    IN  IF InList(parts[1], tracer_names)
        THEN LET d == Index(zone_names, parts[2])
                 t == TracerPrior(data, parts[1])
             IN  <<t.conc[d], Square(t.conc_e[d])>>
        ELSE IF Head(parts[1]) = "R" /\ InList(Tail(parts[1]), tracer_names)
        THEN <<Zero, Square(RMul(RMul(runs[run].gamma, P30Prior.prior), Int2R(mld)))>>
        ELSE LET p == ParamNamed(runs[run].params, parts[1])
             IN  <<p.prior, Square(p.prior_e)>>

\* C9: once the builder has run, the prior vector and covariance are aligned
\* with the state-element list: len(xo) = len(state_elements) = dimension of
\* Co, and for every index i, xo[i] and Co[i,i] are the prior value and
\* variance of the entity state_elements[i] names (a tracer's concentration
\* at that layer; a residual's 0 and (gamma*P30 prior*mld)**2; a parameter's
\* prior, once per zone when depth-varying).
C9_PriorsAligned ==
    (Linear /\ pc \in {"enter", "ati", "unpack", "derive", "append"}) =>
        /\ Len(xo) = Len(state_elements)
        /\ Len(runs[run].Co) = Len(state_elements)
        /\ \A i \in 1..Len(state_elements) :
              /\ Len(runs[run].Co[i]) = Len(state_elements)
              /\ EntityPrior(state_elements[i]) = <<xo[i], runs[run].Co[i][i]>>

C9_Witness ==
    /\ Linear
    /\ pc = "enter"
    /\ data = "offset"
    /\ run > 1

\* a tracer has no prior at some depth
MissingPrior ==
    \E s \in 1..Len(tracer_names) : \E d \in 1..Len(grid) :
        TracerPrior(data, tracer_names[s]).conc[d] = NaN

\* C10 as stated: when an entity lacks a prior the builder fails before the
\* first ATI iteration is executed: no iteration of any run is ever executed
\* and ATI never returns.
C10_MissingPriorFails ==
    (Linear /\ MissingPrior) =>
        /\ \A r \in 1..Len(runs) : Iterations(r) = 0
        /\ pc \notin {"unpack", "derive", "append", "done"}

\* the key names a tracer at a layer
IsTracerKey(key) == InList(Split(key)[1], tracer_names)

\* M is symmetric, and an off-diagonal entry of M is nonzero only between
\* two layers of the same tracer
BlockStructured(M) ==
    \A i, j \in 1..Len(state_elements) :
        /\ M[i][j] = M[j][i]
        /\ (i # j /\ M[i][j] # Zero) =>
              /\ IsTracerKey(state_elements[i])
              /\ IsTracerKey(state_elements[j])
              /\ Split(state_elements[i])[1] = Split(state_elements[j])[1]

\* C11: the prior covariance matrix is symmetric and block-structured: every
\* off-diagonal entry that involves a parameter or a residual state element
\* is zero, and a nonzero off-diagonal entry couples two layers of the same
\* tracer; the log-domain transform Co_log has the same zero pattern.
C11_CovarianceBlocks ==
    /\ (Linear /\ pc \in {"enter", "ati", "unpack", "derive", "append"}) =>
          BlockStructured(runs[run].Co)
    /\ (~Linear /\ pc # "build") =>
          /\ BlockStructured(xo.Co)
          /\ BlockStructured(xo.Co_log)
          /\ \A i, j \in 1..Len(state_elements) :
                (xo.Co[i][j] = Zero) = (xo.Co_log[i][j] = Zero)

C11_Witness ==
    /\ ~Linear
    /\ pc = "loop"
    /\ \E i, j \in 1..Len(state_elements) :
          i # j /\ xo.Co[i][j] # Zero /\ xo.Co_log[i][j] # Zero

\* the Jacobians the evaluator has returned
Jacobians ==
    IF call.fn = "evaluate_model_equations"
    THEN {ret[r].F : r \in {q \in 1..Len(ret) : ret[q] # Raised}}
    ELSE {}

\* state element c belongs to the layer of equation i or to a layer next to it
OwnOrAdjacentLayer(i, c) ==
    LET k == state_elements[c]
        e == Split(equation_elements[i])[2]
    IN  /\ Contains(k, "_")
        /\ IF Linear
           THEN Abs(Index(ZoneLabels, Split(k)[2]) - Index(ZoneLabels, e)) <= 1
           ELSE IF IsTracerKey(k)
           THEN Abs(ParseInt(Split(k)[2]) - ParseInt(e)) <= 1
           ELSE \E d \in {ParseInt(e) - 1, ParseInt(e), ParseInt(e) + 1} :
                   d \in 0..(N_GRID_POINTS - 1) /\ Split(k)[2] = which_zone(d)

\* state element c is a depth-invariant parameter
DepthInvariant(c) == ~Contains(state_elements[c], "_")

\* the couplings beyond the neighbouring layers: small POC of the zones A, B
\* and C in the large-POC equation of the zones D to G (old_code.py), and the
\* tracer two layers above in the equation of a layer from the fourth on
\* (pyrite.py)
DistantCoupling(i, c) ==
    LET k == state_elements[c]
        species == Split(equation_elements[i])[1]
        e == Split(equation_elements[i])[2]
    IN  IF Linear
        THEN /\ species = "POCL"
             /\ e \in {"D", "E", "F", "G"}
             /\ k \in {"POCS_A", "POCS_B", "POCS_C"}
        ELSE /\ species \in {"POCS", "POCL"}
             /\ ParseInt(e) >= 3
             /\ k = species \o "_" \o Str(ParseInt(e) - 2)

\* C12 (amended): an entry F[i,j] of the Jacobian can be nonzero only if
\* state element j belongs to the layer of equation i or to an adjacent
\* layer, or is a depth-invariant parameter, or is one of the two distant
\* couplings of the equations: small POC of zones A, B, C in the large-POC
\* equation of zones D to G (linear variant), the same tracer two layers
\* above in the equation of a layer with index 3 or more (log variant).
\* Every other cell of row i is zero.
C12_JacobianSparse ==
    \A F \in Jacobians : \A i \in 1..Len(F) : \A c \in 1..Len(F[i]) :
        F[i][c] # Zero =>
            OwnOrAdjacentLayer(i, c) \/ DepthInvariant(c) \/ DistantCoupling(i, c)

C12_Witness ==
    /\ Linear
    /\ eqsys = "model"
    /\ \E F \in Jacobians : \E i \in 1..Len(F) : \E c, d \in 1..Len(F[i]) :
          /\ F[i][c] # Zero
          /\ DistantCoupling(i, c)
          /\ ~OwnOrAdjacentLayer(i, c)
          /\ F[i][d] = Zero
          /\ ~OwnOrAdjacentLayer(i, d)

\* C12 as stated: an entry F[i,j] can be nonzero only if state element j
\* belongs to the layer of equation i or to an adjacent layer, or is a
\* depth-invariant parameter.
C12_AsStated ==
    \A F \in Jacobians : \A i \in 1..Len(F) : \A c \in 1..Len(F[i]) :
        F[i][c] # Zero => OwnOrAdjacentLayer(i, c) \/ DepthInvariant(c)

\* the number of tracer elements of the variant's state vector
NTracerElements ==
    IF Linear THEN Len(equation_elements) ELSE Len(TracerKeysLog)

\* the state elements the free symbols of equation number i are looked up as
SymbolElements(i) ==
    IF Linear
    THEN {FreeSymbols(EquationOf(equation_elements, eqsys, i))[j] :
             j \in 1..Len(FreeSymbols(EquationOf(equation_elements, eqsys, i)))}
    ELSE {ElementOf(FreeSymbols(EquationOfLog(equation_elements[i], eqsys = "twin"))[j],
                    ParseInt(Split(equation_elements[i])[2])) :
             j \in 1..Len(FreeSymbols(EquationOfLog(equation_elements[i], eqsys = "twin")))}

\* C13: when params_known is supplied, every equation built has only tracer
\* state elements as free symbols, so every Jacobian column index written is
\* below the number of tracer elements: the call raises no IndexError and
\* returns an nte x nte matrix.
C13_KnownParamsTracersOnly ==
    (eqsys = "twin" /\ call.fn = "evaluate_model_equations") =>
        /\ \A i \in 1..NTracerElements : \A e \in SymbolElements(i) :
              /\ IsTracerKey(e)
              /\ Index(state_elements, e) \in 1..NTracerElements
        /\ \A r \in 1..Len(ret) :
              /\ ret[r] # Raised
              /\ Len(ret[r].F) = NTracerElements
              /\ \A i \in 1..Len(ret[r].F) : Len(ret[r].F[i]) = NTracerElements

C13_Witness ==
    /\ eqsys = "twin"
    /\ call.fn = "evaluate_model_equations"
    /\ Len(ret) >= 1
    /\ ret[1] # Raised
    /\ \E i \in 1..NTracerElements : ret[1].F[i][NTracerElements] # Zero
    /\ NTracerElements < Len(state_elements)

\* the name a state element has in the equation of a depth (pyrite.py), or
\* "none" when the equation cannot refer to it
RelativeName(element, depth) ==
    IF IsTracerKey(element)
    THEN LET k == ParseInt(Split(element)[2]) - depth
         IN  Split(element)[1] \o "_" \o (IF k < 0 THEN "-" \o Str(-k) ELSE Str(k))
    ELSE IF ~Contains(element, "_") THEN element
    ELSE IF Split(element)[2] = which_zone(depth) THEN Split(element)[1]
    ELSE "none"

\* the value of y and of its derivatives by every state element, each symbol
\* taking the value of its own state element, computed without iterating a
\* free-symbol set
DirectEvaluation(c, i, width) ==
    IF Linear
    THEN LET y == EquationOf(equation_elements, eqsys, i)
         IN  [f |-> Lambdify(state_elements, y, c.v),
              F |-> Tup([j \in 1..width |->
                        Lambdify(state_elements, Diff(y, state_elements[j]), c.v)])]
    ELSE LET y == EquationOfLog(equation_elements[i], eqsys = "twin")
             depth == ParseInt(Split(equation_elements[i])[2])
             names == Tup([j \in 1..Len(state_elements) |->
                          RelativeName(state_elements[j], depth)])
             vals == Tup([j \in 1..Len(state_elements) |->
                         IF c.lognormal THEN Exp(c.v[j]) ELSE c.v[j]])
         IN  [f |-> Lambdify(names, y, vals),
              F |-> Tup([j \in 1..width |->
                        Lambdify(names, DiffLog(y, names[j], c.lognormal), vals)])]

\* C14: for a fixed state vector evaluate_model_equations returns the same
\* residual vector and the same Jacobian on every call, whatever order the
\* free symbols of an expression are iterated in: every value is the one of
\* the cell of its own symbol's state-element index, a second call returns
\* what the first returned, and the state-element list and the state vector
\* are what they were before the call.
C14_EvaluationReproducible ==
    call.fn = "evaluate_model_equations" =>
        /\ \A r \in 1..Len(ret) :
              ret[r] # Raised =>
                  \A i \in 1..Len(ret[r].F) :
                      /\ ret[r].f[i] = DirectEvaluation(call, i, Len(ret[r].F[i])).f
                      /\ ret[r].F[i] = DirectEvaluation(call, i, Len(ret[r].F[i])).F
        /\ Len(ret) = 2 => ret[1] = ret[2]
        /\ state_elements = IF Linear THEN AllStateElements ELSE AllStateElementsLog
        /\ \E kind \in StateValues :
              call.v = StateVector(kind, Len(state_elements), call.lognormal)

C14_Witness ==
    /\ call.fn = "evaluate_model_equations"
    /\ order = "desc"
    /\ Len(ret) = 2
    /\ ret[2] # Raised
    /\ \E i \in 1..Len(ret[2].F) : \E c, d \in 1..Len(ret[2].F[i]) :
          /\ c # d
          /\ ret[2].F[i][c] # Zero
          /\ ret[2].F[i][d] # Zero
          /\ ret[2].F[i][c] # ret[2].F[i][d]

\* the prior state satisfies every model equation exactly
PriorSatisfiesEquations ==
    \A i \in 1..Len(equation_elements) :
        EvaluateF(state_elements, equation_elements, eqsys, xo)[i] = Zero

\* C15 as stated: if the prior state xo satisfies every model equation
\* exactly, the first update returns x1 = xo, the recorded cost is 0, and the
\* solver stops with converged = true after one iteration.
C15_PriorRecovery ==
    (Linear /\ pc = "unpack" /\ PriorSatisfiesEquations) =>
        /\ ati.xkp1 = xo
        /\ runs[run].cost_evolution[1] = Zero
        /\ runs[run].converged
        /\ Iterations(run) = 1

\* a call of eval_symbolic_func with err=True has returned
Propagated == call.fn = "eval_symbolic_func" /\ call.err /\ Len(ret) = 1

\* the state-element indices of the symbols that occur in y
SymbolIndices(y) ==
    {i \in 1..Len(state_elements) :
        \E k \in 1..Len(y) : InList(state_elements[i], y[k].s)}

\* dy/dx_i at the estimate xhat, x_i the state element of index i
DerivativeAt(y, i) == Lambdify(state_elements, Diff(y, state_elements[i]), xhat)

\* the sum of (dy/dx_i)^2 Cov(i,i) over the symbols of y
DiagonalTerms(y, Cov) ==
    VSum(Tup([i \in 1..Len(state_elements) |->
        IF i \in SymbolIndices(y)
        THEN RMul(RMul(DerivativeAt(y, i), DerivativeAt(y, i)), Cov[i][i])
        ELSE Zero]))

\* the sum of 2 (dy/dx_i)(dy/dx_j) Cov(i,j) over the pairs i < j of symbols of y
CrossTerms(y, Cov) ==
    VSum(Tup([i \in 1..Len(state_elements) |->
        VSum(Tup([j \in 1..Len(state_elements) |->
            IF i < j /\ i \in SymbolIndices(y) /\ j \in SymbolIndices(y)
            THEN RMul(RMul(Int2R(2), RMul(DerivativeAt(y, i), DerivativeAt(y, j))),
                      Cov[i][j])
            ELSE Zero]))]))

\* C16: for an expression that is a single bare state-element symbol x_i of
\* any kind, eval_symbolic_func returns exactly (xhat[i], sqrt(cvm[i,i])),
\* i the index of the symbol's key in state_elements.
C16_BareSymbol ==
    Propagated =>
        \A i \in 1..Len(state_elements) :
            call.y = S(state_elements[i]) =>
                ret[1] = <<xhat[i], RSqrt(runs[run].cvm[i][i])>>

C16_Witness ==
    /\ Propagated
    /\ \E i \in 1..Len(state_elements) :
          /\ call.y = S(state_elements[i])
          /\ Split(state_elements[i])[1] = "RPOCS"
          /\ ret[1] = <<xhat[i], RSqrt(runs[run].cvm[i][i])>>
          /\ runs[run].cvm[i][i] # Zero
          /\ IsFinite(xhat[i])

\* C17: the propagated variance of an expression y sums, over the free
\* symbols of y only, each diagonal term (dy/dx_i)^2 Cov(i,i) once and each
\* unordered pair i < j once as 2 (dy/dx_i)(dy/dx_j) Cov(i,j), Cov taken from
\* the posterior covariance at the state-element indices of the symbols;
\* the error is its square root.
C17_PropagatedVariance ==
    (Propagated /\ call.cov) =>
        ret[1][2] = RSqrt(RAdd(DiagonalTerms(call.y, runs[run].cvm),
                               CrossTerms(call.y, runs[run].cvm)))

C17_Witness ==
    /\ Propagated
    /\ call.cov
    /\ order = "desc"
    /\ Cardinality(SymbolIndices(call.y)) = 4
    /\ CrossTerms(call.y, runs[run].cvm) # Zero
    /\ IsFinite(CrossTerms(call.y, runs[run].cvm))
    /\ ret[1][2] = RSqrt(RAdd(DiagonalTerms(call.y, runs[run].cvm),
                              CrossTerms(call.y, runs[run].cvm)))

\* C18: with cov=False eval_symbolic_func returns the same point value as
\* with cov=True, and a variance that is the sum of the diagonal terms
\* (dy/dx_i)^2 Cov(i,i) only, every cross-covariance term omitted.
C18_NoCovariance ==
    (Propagated /\ ~call.cov) =>
        /\ ret[1][1] =
               eval_symbolic_func(state_elements, runs[run], call.y, TRUE, TRUE)[1]
        /\ ret[1][2] = RSqrt(DiagonalTerms(call.y, runs[run].cvm))

C18_Witness ==
    /\ Propagated
    /\ ~call.cov
    /\ Cardinality(SymbolIndices(call.y)) >= 2
    /\ CrossTerms(call.y, runs[run].cvm) # Zero
    /\ IsFinite(CrossTerms(call.y, runs[run].cvm))
    /\ ret[1][2] = RSqrt(DiagonalTerms(call.y, runs[run].cvm))
    /\ ret[1] # eval_symbolic_func(state_elements, runs[run], call.y, TRUE, TRUE)

\* Co - Co F^T (F Co F^T [+ Cf])^-1 F Co
TotalInversionCovariance(Co, F, Cf) ==
    LET S_ == IF Cf = None THEN MatMul(MatMul(F, Co), Transpose(F))
              ELSE MatAdd(MatMul(MatMul(F, Co), Transpose(F)), Cf)
    IN  MatSub(Co, MatMul(MatMul(MatMul(MatMul(Co, Transpose(F)), Inv(S_)), F), Co))

\* C19 as stated: the posterior covariance the solver stores (in the log
\* variant, the matrix that is back-transformed) equals
\* Co - Co F^T (F Co F^T [+ Cf])^-1 F Co, from the prior covariance and the
\* Jacobian of the final iteration.
C19_PosteriorCovariance ==
    (call.fn = "ATI" /\ pc = "derive") =>
        ret[1] = TotalInversionCovariance(call.Co, ati.F, call.Cf)

\* task t has ended
Ended(t) == status[t] \in Outcomes

\* C20: in the pool-based ensemble driver the failure of one task (singular
\* matrix, numerical warning, unsuccessful solve, or any raised exception)
\* neither stops nor alters any other task: the pool is never terminated,
\* while tasks remain a step of the driver is possible, when join returns
\* every task has been executed, and a task that has ended has its own
\* artifact in the output exactly if it succeeded, whatever the others did.
C20_TaskIsolation ==
    main_pc # "none" =>
        /\ main_pc # "terminated"
        /\ main_pc # "joined" => ENABLED PoolNext
        /\ main_pc = "joined" => \A t \in 1..Len(tasks) : Ended(t)
        /\ \A t \in 1..Len(tasks) :
              (FileName(tasks[t]) \in output) = (status[t] = "success")
        /\ \A t, u \in 1..Len(tasks) :
              t # u => FileName(tasks[t]) # FileName(tasks[u])

C20_Witness ==
    /\ main_pc = "joined"
    /\ \E t, u, v \in 1..Len(tasks) :
          /\ t < u
          /\ u < v
          /\ Raises(status[t])
          /\ status[u] = "singular"
          /\ status[v] = "success"
          /\ FileName(tasks[v]) \in output

\* find_solution raised a LinAlgError in task t, with the text in its message
\* or without it
RaisedLinAlgError(t, singular) ==
    /\ Len(solves[t]) > 0
    /\ solves[t][1].raises = "LinAlgError"
    /\ Contains(solves[t][1].msg, "Singular matrix") = singular

\* C21: when find_solution raises a LinAlgError whose message contains
\* 'Singular matrix', invert_station prints the parameter set and the station
\* and returns, with no file written and find_solution called once, and the
\* task is not run again; a LinAlgError with another message is raised again
\* and leaves invert_station, also with no file written.
C21_SingularReturns ==
    \A t \in 1..Len(tasks) :
        /\ RaisedLinAlgError(t, TRUE) =>
              /\ status[t] = "singular"
              /\ ~Raises(status[t])
              /\ ("Singular matrix: " \o Str(tasks[t][2]) \o ", " \o tasks[t][1])
                     \in printed
              /\ writes[t] = {}
              /\ (tasks[t][1] \o "_" \o Str(tasks[t][2]) \o ".h5") \notin output
              /\ Len(solves[t]) = 1
              /\ \A w \in 1..PoolSize : workers[w] # t
        /\ RaisedLinAlgError(t, FALSE) =>
              /\ status[t] = "linalg"
              /\ Raises(status[t])
              /\ writes[t] = {}
              /\ Len(solves[t]) = 1

C21_Witness ==
    /\ main_pc = "joined"
    /\ \E t, u \in 1..Len(tasks) :
          /\ RaisedLinAlgError(t, TRUE)
          /\ RaisedLinAlgError(u, FALSE)
          /\ status[t] = "singular"
          /\ status[u] = "linalg"

\* the tasks of a station and a parameter set
TasksOf(station, set_id) ==
    {t \in 1..Len(tasks) : tasks[t][1] = station /\ tasks[t][2] = set_id}

\* '<station>_<set id>.h5' of the combination of task t
OwnArtifact(t) == tasks[t][1] \o "_" \o Str(tasks[t][2]) \o ".h5"

\* C22: the task list holds every combination of a station and a parameter
\* set exactly once; a task opens for writing no path but
\* '<station>_<set id>.h5' of its own combination; no two tasks, running at
\* the same time or not, write the same path, and every file in the output
\* directory is the artifact of the one task that wrote it.
C22_OwnArtifact ==
    main_pc # "none" =>
        /\ Len(tasks) = Len(Stations) * NParamSets
        /\ \A k \in 1..Len(Stations) : \A s \in 0..(NParamSets - 1) :
              Cardinality(TasksOf(Stations[k], s)) = 1
        /\ \A t \in 1..Len(tasks) : writes[t] \subseteq {OwnArtifact(t)}
        /\ \A t, u \in 1..Len(tasks) :
              t # u => writes[t] \cap writes[u] = {}
        /\ \A f \in output :
              Cardinality({t \in 1..Len(tasks) : f \in writes[t]}) = 1

C22_Witness ==
    \E t, u, v \in 1..Len(tasks) :
        /\ t # u
        /\ tasks[t][1] = tasks[u][1]
        /\ writes[t] = {OwnArtifact(t)}
        /\ writes[u] = {OwnArtifact(u)}
        /\ v # t
        /\ tasks[v][2] = tasks[t][2]
        /\ \E w, x \in 1..PoolSize :
              /\ w # x
              /\ workers[w] = v
              /\ workers[x] \notin {0, v}
              /\ writes[workers[x]] = {}

\* numpy has issued a RuntimeWarning in the solve of the current run: np.exp
\* overflowed in check_convergence of an executed iteration
WarningIssued ==
    /\ variant = "log"
    /\ run # 0
    /\ plan.kind = "overflow"
    /\ Len(runs[run].convergence_evolution) >= plan.at

\* C23: a numerical warning raised during a solve (overflow in np.exp) is
\* turned into an error that the caller handles: from the warning on the
\* construction is in an exception or the run is dropped, and no estimate
\* computed after the warning is stored in the run or pickled with the model.
C23_WarningsElevated ==
    WarningIssued =>
        /\ runs[run].cvm = None
        /\ runs[run].tracer_results = EmptyDict
        /\ runs[run].param_results = EmptyDict
        /\ ~InList(run, model_runs)

\* the passes of the loop of find_solution that the current run has executed
\* to their end, by the loop counter: a pass that ends in break leaves the
\* counter as it is, any other pass moves it on by one
PassesExecuted == IF runs[run].converged THEN ati.count + 1 ELSE ati.count

\* C24: every pass of the loop of find_solution that is executed to its end
\* appends exactly one cost to run.cost_evolution, the first pass and the pass
\* in which convergence is declared included: a run that has not entered the
\* loop has no cost, and from then on, also when ATI has returned, the length
\* of cost_evolution is the number of passes executed.
C24_OneCostPerIteration ==
    run # 0 =>
        IF pc \in {"elements", "priors", "enter"}
        THEN runs[run].cost_evolution = <<>>
        ELSE Len(runs[run].cost_evolution) = PassesExecuted

C24_Witness ==
    /\ run # 0
    /\ pc = "unpack"
    /\ runs[run].converged
    /\ ati.count >= 1
    /\ Len(runs[run].cost_evolution) = ati.count + 1

\* the symbols of the migration terms: the parameters, and small POC of the
\* three zones the zooplankton feeds in
MigrationParams == {"B3", "a", "zm"}

GrazedTracers == {"POCS_A", "POCS_B", "POCS_C"}

\* the zone ends at or above the transition depth zg
AboveTransition(z) == GridZoneDepths(z)[2] <= zg

\* the column of the Jacobian of a state element
ColumnOf(name) == Index(state_elements, name)

\* C25: the terms of the vertical migration apply by zone relative to
\* zg = 100 m.  With the parameters as symbols, the small-POC equation of a
\* zone holds B3 exactly if the zone is A, B or C (it ends at or above zg), and
\* never a or zm; the large-POC equation of a zone holds B3, a, zm, POCS_A,
\* POCS_B and POCS_C exactly if the zone is one of D to G (below zg), and none
\* of B3, a, zm in the zones A to C.  The Jacobian a call returns is zero in
\* the columns of B3, a and zm wherever the equation does not hold the symbol.
C25_MigrationByZone ==
    (Linear /\ eqsys = "model" /\ call.fn = "evaluate_model_equations") =>
        \A i \in 1..Len(equation_elements) :
            LET species == Split(equation_elements[i])[1]
                z == Split(equation_elements[i])[2]
                syms == SymbolElements(i)
            IN  /\ AboveTransition(z) = (z \in {"A", "B", "C"})
                /\ ~AboveTransition(z) = (z \in {"D", "E", "F", "G"})
                /\ species = "POCS" =>
                      /\ ("B3" \in syms) = AboveTransition(z)
                      /\ "a" \notin syms
                      /\ "zm" \notin syms
                /\ species = "POCL" =>
                      /\ ((MigrationParams \cup GrazedTracers) \subseteq syms)
                             = ~AboveTransition(z)
                      /\ AboveTransition(z) => MigrationParams \cap syms = {}
                /\ \A F \in Jacobians : \A p \in MigrationParams :
                      p \notin syms => F[i][ColumnOf(p)] = Zero

C25_Witness ==
    /\ Linear
    /\ eqsys = "model"
    /\ \E F \in Jacobians : \E i, j, k \in 1..Len(equation_elements) :
          /\ equation_elements[i] = "POCL_D"
          /\ \A p \in MigrationParams \cup GrazedTracers : F[i][ColumnOf(p)] # Zero
          /\ equation_elements[j] = "POCS_C"
          /\ F[j][ColumnOf("B3")] # Zero
          /\ F[j][ColumnOf("zm")] = Zero
          /\ equation_elements[k] = "POCS_D"
          /\ F[k][ColumnOf("B3")] = Zero

\* the zones the symbols of an expression belong to ("": the symbol of a
\* parameter that does not vary with depth)
ZonesOf(y) ==
    {IF Contains(FreeSymbols(y)[k], "_") THEN Split(FreeSymbols(y)[k])[2] ELSE "" :
        k \in 1..Len(FreeSymbols(y))}

BottomZone == ZoneLabels[Len(ZoneLabels)]

\* the zones an expression of zone number i may refer to: its own and, for
\* every zone but the first, the one above
OwnAndAbove(i) ==
    IF i = 1 THEN {ZoneLabels[1]} ELSE {ZoneLabels[i], ZoneLabels[i - 1]}

\* C26: the topmost zone has no predecessor.  The expressions built for
\* zone A (its two equations, with the parameters as symbols or as numbers,
\* its inventories and its fluxes) hold symbols of zone A and of parameters
\* that do not vary with depth only, never one of the bottom zone G, which is
\* what previous_zone returns for A through the list index -1, and the
\* Jacobian of an equation of zone A is zero in every column of zone G; the
\* inventory of every other zone holds the tracer of the zone and of the zone
\* above it.
C26_TopZoneNoPredecessor ==
    (Linear /\ pc = "evaluated") =>
        /\ previous_zone(ZoneLabels[1]) = BottomZone
        /\ call.fn = "evaluate_model_equations" =>
              \A i \in 1..Len(equation_elements) :
                  Split(equation_elements[i])[2] = "A" =>
                      /\ ZonesOf(EquationOf(equation_elements, eqsys, i)) \subseteq {"", "A"}
                      /\ \A F \in Jacobians : \A c \in 1..Len(F[i]) :
                            Contains(state_elements[c], "_" \o BottomZone)
                                => F[i][c] = Zero
        /\ call.fn = "calculate_inventories" =>
              \A k \in 1..Len(ret[1]) : \A i \in 1..Len(ZoneLabels) :
                  /\ ZonesOf(ret[1][k].zones[i]) = OwnAndAbove(i)
                  /\ BottomZone \notin ZonesOf(ret[1][k].EZ)
        /\ call.fn = "calculate_fluxes" =>
              \A k \in 1..Len(ret[1]) :
                  ZonesOf(ret[1][k][1]) \subseteq {"", "A"}

C26_Witness ==
    /\ Linear
    /\ pc = "evaluated"
    /\ call.fn = "calculate_inventories"
    /\ ZonesOf(ret[1][1].zones[1]) = {"A"}
    /\ ZonesOf(ret[1][1].zones[2]) = {"A", "B"}
    /\ ZonesOf(ret[1][2].zones[7]) = {"F", "G"}

\* the zones whose indices hold the grid index d (from 0)
ZonesHolding(d) ==
    {z \in 1..Len(zone_names_log) : InList(d + 1, ZoneIndices(zone_names_log[z]))}

\* the variables extract_equation_variables finds in the equation of equation
\* element number i, at the vector of the call
Extracted(i) ==
    extract_equation_variables_log(
        state_elements, EquationOfLog(equation_elements[i], eqsys = "twin"),
        ParseInt(Split(equation_elements[i])[2]), call.v, call.lognormal)

\* symbol number j of equation element number i at grid index d is looked up
\* as the state element it names
Resolved(i, j, d) ==
    LET name == Extracted(i).sym[j]
        at == Extracted(i).ind[j]
    IN  /\ at \in 1..Len(state_elements)
        /\ IF Contains(name, "_")
           THEN LET tracer == Split(name)[1]
                    r == ParseInt(Split(name)[2])
                IN  /\ d + r >= 0
                    /\ d + r <= N_GRID_POINTS - 1
                    /\ at = (Index(tracer_names, tracer) - 1) * N_GRID_POINTS + d + r + 1
                    /\ state_elements[at] = tracer \o "_" \o Str(d + r)
           ELSE IF InList(name, dv_param_names_log)
           THEN \E z \in ZonesHolding(d) :
                   state_elements[at] = name \o "_" \o zone_names_log[z]
           ELSE state_elements[at] = name

\* C27: in the grid variant every grid index lies in exactly one zone, and
\* for every equation element, at its grid index d, every free symbol of the
\* equation is looked up as an existing state element: the symbol of a tracer
\* with the relative depth r as '<tracer>_<d+r>' with 0 <= d+r <= N-1, inside
\* the block of that tracer; a parameter that varies with depth as
\* '<param>_<zone holding d>'; any other parameter as '<param>'.  No lookup
\* fails: the call raises nothing.
C27_SymbolsResolve ==
    (~Linear /\ call.fn = "evaluate_model_equations") =>
        /\ \A d \in 0..(N_GRID_POINTS - 1) : Cardinality(ZonesHolding(d)) = 1
        /\ Len(equation_elements) = 3 * N_GRID_POINTS
        /\ \A i \in 1..Len(equation_elements) :
              /\ ParseInt(Split(equation_elements[i])[2]) \in 0..(N_GRID_POINTS - 1)
              /\ \A j \in 1..Len(Extracted(i).sym) :
                    Resolved(i, j, ParseInt(Split(equation_elements[i])[2]))
        /\ \A r \in 1..Len(ret) : ret[r] # Raised

C27_Witness ==
    /\ ~Linear
    /\ eqsys = "model"
    /\ \E F \in Jacobians :
          /\ F[Index(equation_elements, "POCS_2")][Index(state_elements, "POCS_3")] # Zero
          /\ F[Index(equation_elements, "POCL_3")][Index(state_elements, "POCL_1")] # Zero
          /\ F[Index(equation_elements, "POCS_0")][Index(state_elements, "ws_LEZ")] # Zero
          /\ F[Index(equation_elements, "POCS_3")][Index(state_elements, "ws_UMZ")] # Zero
          /\ F[Index(equation_elements, "POCS_3")][Index(state_elements, "Lp")] # Zero

\* np.arange(start, stop)
arange(start, stop) ==
    Tup([i \in 1..(IF stop > start THEN stop - start ELSE 0) |-> start + i - 1])

\* PlotterTwinX.cost_and_convergence: the iterations the trace is plotted
\* against, np.arange(2, k+1) with k = len(run.cost_evolution)
PlottedIterations(r) == arange(2, Len(runs[r].cost_evolution) + 1)

\* ATI has returned for run r: the current run past the loop, or an appended run
HasReturned(r) ==
    \/ r = run /\ pc \in {"unpack", "derive", "append"}
    \/ InList(r, model_runs)

\* C28: in the linear variant, when ATI has returned after n >= 1 passes of
\* the loop, convergence_evolution has n - 1 entries, one fewer than
\* cost_evolution; the convergence plot pairs the trace with the iterations
\* 2..k, k = len(cost_evolution), which are as many.
C28_TraceLengths ==
    Linear =>
        \A r \in 1..Len(runs) :
            HasReturned(r) =>
                /\ Len(runs[r].cost_evolution) >= 1
                /\ Len(runs[r].convergence_evolution)
                       = Len(runs[r].cost_evolution) - 1
                /\ r = run => Len(runs[r].cost_evolution) = PassesExecuted
                /\ Len(PlottedIterations(r)) = Len(runs[r].convergence_evolution)
                /\ Len(runs[r].cost_evolution) >= 2 =>
                      /\ PlottedIterations(r)[1] = 2
                      /\ PlottedIterations(r)[Len(PlottedIterations(r))]
                             = Len(runs[r].cost_evolution)

C28_Witness ==
    /\ Linear
    /\ \E r \in 1..Len(runs) :
          /\ InList(r, model_runs)
          /\ runs[r].converged
          /\ Len(runs[r].cost_evolution) >= 2
          /\ Len(runs[r].convergence_evolution) = Len(runs[r].cost_evolution) - 1

\* the pass of the loop of find_solution after which it returns
LastPass == pc = "ati" /\ pc' = "unpack"

\* the locals find_solution returns are those of the pass made from xk: the
\* Jacobian evaluated at xk, and the estimate and the matrices
\* calculate_xkp1 computes from it (log variant: the values named by the
\* number of the pass)
FromLastIterate(xk, left) ==
    IF Linear
    THEN LET f == EvaluateF(state_elements, equation_elements, eqsys, xk)
             F == EvaluateJacobian(state_elements, equation_elements, eqsys, xk)
             step == calculate_xkp1(xo, runs[run].Co, xk, f, F)
         IN  /\ left.F = F
             /\ left.xkp1 = step[1]
             /\ left.CoFT = step[2]
             /\ left.FCoFTi = step[3]
    ELSE \E k \in 1..max_iterations_log :
            /\ k = Len(runs[run].cost_evolution) + 1
            /\ left.F = <<"F", k>>
            /\ left.xkp1 = <<"x", k>>
            /\ left.CoFT = <<"CoFT", k>>
            /\ left.FCoFTi = <<"FCoFTpCfi", k>>

\* C29: the Jacobian F and the matrices Co F^T and (F Co F^T)^-1 that the
\* posterior covariance is computed from are those of the last executed pass
\* of the loop, evaluated at the iterate xk from which the returned estimate
\* x(k+1) was computed, whether the loop ended by convergence or by the
\* iteration limit; unpacking evaluates nothing again: it takes the estimate
\* and the covariance from these locals and leaves them as they are.
C29_LastIterationMatrices ==
    [][ /\ LastPass => FromLastIterate(ati.xk, ati')
        /\ (pc = "unpack" /\ pc' = "derive") =>
              /\ ati' = ati
              /\ xhat' = Returned
              /\ Linear =>
                    runs'[run].cvm = PosteriorCovariance(runs[run].Co, ati.F,
                                                         ati.CoFT, ati.FCoFTi)
              /\ ~Linear => runs'[run].cvm = <<"cvm", ati.xkp1>> ]_vars

\* a run of the linear variant is unpacked whose Jacobian at the returned
\* estimate differs from the one of the last pass
C29_Witness ==
    /\ Linear
    /\ pc = "derive"
    /\ run # 0
    /\ ati.count >= 2
    /\ runs[run].cvm = PosteriorCovariance(runs[run].Co, ati.F, ati.CoFT, ati.FCoFTi)
    /\ EvaluateJacobian(state_elements, equation_elements, eqsys, ati.xkp1) # ati.F

(***************************************************************************)
(* get_filenames (scripts/geotraces/figures.py): the result files of a     *)
(* directory, "ps<set>_stn<station>.pkl", or those of the parameter sets   *)
(* that have a file for every station.                                     *)
(***************************************************************************)
\* the highest id of a parameter set with a file in the directory
MaxSetId == 3

\* len(stations): the stations of data.poc_by_station()
NStations == 2

\* the name of the result file of a parameter set at a station
PickledName(set, station) == "ps" \o Str(set) \o "_stn" \o Str(station) \o ".pkl"

\* what a results directory holds beside the result files
OtherEntries == <<"table.pkl", "figs">>

\* os.listdir(path): the entries in an order of the file system's choice;
\* here by station, then by set, or the reverse of it
Entries(present, others, listed) ==
    LET all == (IF others THEN OtherEntries ELSE <<>>)
                  \o Flatten(Tup([st \in 1..NStations |->
                         Tup([n \in 1..(MaxSetId + 1) |-> PickledName(n - 1, st)])]))
        kept == SelectIdx(all, {i \in 1..Len(all) :
                                   all[i] \in present \/ InList(all[i], OtherEntries)},
                          Len(all))
    IN  IF listed = "asc" THEN kept ELSE Reverse(kept)

\* the directories get_filenames is run on
Directories ==
    { Entries(present, others, listed) :
        present \in SUBSET {PickledName(n, st) : n \in 0..MaxSetId, st \in 1..NStations},
        others \in BOOLEAN, listed \in Orders }

\* 'stn' in f
HasStn(f) == \E i \in 1..(Len(f) - 2) : SubSeq(f, i, i + 2) = "stn"

\* int(s) of a string of decimal digits
RECURSIVE IntFrom(_, _)
IntFrom(s, acc) ==
    IF s = "" THEN acc ELSE IntFrom(Tail(s), 10 * acc + ParseInt(SubSeq(s, 1, 1)))

\* int(x.split('_')[0][2:])
f_set(x) == IntFrom(SubSeq(Split(x)[1], 3, Len(Split(x)[1])), 0)

\* list.sort(key=...): stable, by increasing key
SortBySet(list) ==
    Tup([p \in 1..Len(list) |->
        list[CHOOSE i \in 1..Len(list) :
                Cardinality({j \in 1..Len(list) :
                                \/ f_set(list[j]) < f_set(list[i])
                                \/ f_set(list[j]) = f_set(list[i]) /\ j < i}) = p - 1]])

\* pickled_files: the entries with 'stn' in their name, sorted by set
pickled_files_of(entries) ==
    SortBySet(SelectIdx(entries, {i \in 1..Len(entries) : HasStn(entries[i])},
                        Len(entries)))

\* the body of "for i, f in enumerate(pickled_files)"; i counts from 0
LoopBody(l, i, f) ==
    IF f_set(f) = l.set_number
    THEN [l EXCEPT !.set_counter = @ + 1,
                   !.filenames =
                       IF l.set_counter + 1 = NStations
                       THEN @ \o SubSeq(l.pickled_files, i + 1 - NStations + 1, i + 1)
                       ELSE @]
    ELSE [l EXCEPT !.set_number = @ + 1, !.set_counter = 1]

FilesInit ==
    /\ NoDriver
    /\ variant = "log"
    /\ order = "asc"
    /\ gammas = <<>>
    /\ rel_errs = <<>>
    /\ data = "offset"
    /\ eqsys = "model"
    /\ state_elements = <<>>
    /\ equation_elements = <<>>
    /\ xo = <<>>
    /\ runs = <<>>
    /\ model_runs = <<>>
    /\ run = 0
    /\ gi = 1
    /\ ri = 1
    /\ pc = "listdir"
    /\ ati = NoLocals
    /\ xhat = None
    /\ exc = ""
    /\ plan = NoPlan
    /\ \E path \in Directories : \E successful_sets \in BOOLEAN :
          call = [fn |-> "get_filenames", path |-> path,
                  successful_sets |-> successful_sets]
    /\ ret = <<>>

\* get_filenames up to the loop: the listing, the sort and the locals of the
\* loop, or the whole listing when successful_sets is not set
ListFiles ==
    /\ pc = "listdir"
    /\ call.fn = "get_filenames"
    /\ \E pickled_files \in {pickled_files_of(call.path)} :
          IF call.successful_sets
          THEN /\ call' = [fn |-> "get_filenames", path |-> call.path,
                           successful_sets |-> TRUE,
                           pickled_files |-> pickled_files, filenames |-> <<>>,
                           set_number |-> 0, set_counter |-> 0, i |-> 0]
               /\ pc' = "loop"
               /\ UNCHANGED ret
          ELSE /\ ret' = << pickled_files >>
               /\ pc' = "returned"
               /\ UNCHANGED call
    /\ UNCHANGED << inputs, driver, state_elements, equation_elements, xo, runs,
                    model_runs, run, gi, ri, ati, xhat, exc, plan >>

\* one pass of the loop over pickled_files
NextFile ==
    /\ pc = "loop"
    /\ call.fn = "get_filenames"
    /\ call.i < Len(call.pickled_files)
    /\ call' = [LoopBody(call, call.i, call.pickled_files[call.i + 1])
                   EXCEPT !.i = call.i + 1]
    /\ UNCHANGED << inputs, driver, state_elements, equation_elements, xo, runs,
                    model_runs, run, gi, ri, ati, xhat, exc, plan, ret, pc >>

\* the loop is over: the two counts are printed and filenames is returned
ReturnFilenames ==
    /\ pc = "loop"
    /\ call.fn = "get_filenames"
    /\ call.i = Len(call.pickled_files)
    /\ ret' = << call.filenames >>
    /\ pc' = "returned"
    /\ UNCHANGED << inputs, driver, state_elements, equation_elements, xo, runs,
                    model_runs, run, gi, ri, ati, xhat, exc, plan, call >>

FilesNext ==
    \/ ListFiles
    \/ NextFile
    \/ ReturnFilenames

FilesSpec == FilesInit /\ [][FilesNext]_vars

\* the parameter sets that have a file in the directory for every station
SuccessfulSets(entries) ==
    {n \in 0..MaxSetId : \A st \in 1..NStations : InList(PickledName(n, st), entries)}

\* C30: get_filenames(successful_sets=True) returns exactly the result files
\* of the parameter sets for which a file exists for every station, each of
\* them once, for any pattern of missing files in the sorted listing:
\* sets with no file at all and a first set whose id is not 0 included.
C30_SuccessfulSetsReturned ==
    (pc = "returned" /\ call.fn = "get_filenames" /\ call.successful_sets) =>
        /\ {ret[1][k] : k \in 1..Len(ret[1])} =
              {PickledName(n, st) : n \in SuccessfulSets(call.path), st \in 1..NStations}
        /\ Len(ret[1]) = NStations * Cardinality(SuccessfulSets(call.path))

====
